---- MODULE Spec2Model ----
(***************************************************************************)
(* Model of the persistence layer of the workout tracker, ExerciseDB in    *)
(* src/src/app/lib/indexdb_handler.tsx, over the IndexedDB object stores   *)
(* it creates in open(): exercises (keyPath name), records (keyPath id,    *)
(* autoIncrement, indexes on exerciseName and date) and plans (keyPath id, *)
(* autoIncrement, unique index on name).                                   *)
(*                                                                         *)
(* Every ExerciseDB method is an asynchronous call of a caller (a UI       *)
(* task).  A call runs up to the point where it has created its            *)
(* transaction and placed its first request; the transaction then waits in *)
(* txq until the engine runs it.  The engine runs transactions whose       *)
(* scopes overlap in the order of their creation (read-only transactions   *)
(* do not wait for each other).  A request that fails with an unhandled    *)
(* error event aborts its transaction and rolls its writes back.           *)
(*                                                                         *)
(* Encoding of JavaScript values: strings that are compared by order       *)
(* (dates) are sequences of character codes; an optional value is a        *)
(* sequence of length 0 (undefined / null) or 1; an object is a function   *)
(* from field names to values.                                             *)
(***************************************************************************)
EXTENDS Integers, Sequences, FiniteSets, TLC

\* ---------------------------------------------------------------- bounds
NumCallers == 2      \* callers (UI tasks) that may have a call in flight
MaxKey == 2          \* no addRecord or addPlan is called that could take a key above it
MaxQueue == 3        \* transactions waiting in the engine at one time

Callers == 1..NumCallers

\* ------------------------------------------------------- store names
exerciseStore == "exercises"
recordStore == "records"
planStore == "plans"

\* ------------------------------------------------------- JS value helpers
Null == <<>>
Some(x) == <<x>>
IsSome(o) == Len(o) > 0

\* spread merge {...a, ...b}: every field of b overrides the field of a
Merge(a, b) == [f \in (DOMAIN a) \cup (DOMAIN b) |-> IF f \in DOMAIN b THEN b[f] ELSE a[f]]

\* object without the field f
Without(o, f) == [g \in (DOMAIN o) \ {f} |-> o[g]]

Max(a, b) == IF a >= b THEN a ELSE b

\* code-unit order of two strings (the order of IndexedDB string keys)
RECURSIVE StrLess(_, _)
StrLess(a, b) ==
    IF Len(b) = 0 THEN FALSE
    ELSE IF Len(a) = 0 THEN TRUE
    ELSE IF Head(a) < Head(b) THEN TRUE
    ELSE IF Head(a) > Head(b) THEN FALSE
    ELSE StrLess(Tail(a), Tail(b))

StrLeq(a, b) == a = b \/ StrLess(a, b)

\* parseInt(s, 10) of a string of decimal digits
RECURSIVE ParseInt(_)
ParseInt(s) == IF Len(s) = 0 THEN 0 ELSE 10 * ParseInt(SubSeq(s, 1, Len(s) - 1)) + s[Len(s)]

\* the elements of a finite set of integers as an ascending sequence
RECURSIVE SortedSeq(_)
SortedSeq(S) ==
    IF S = {} THEN <<>>
    ELSE LET m == CHOOSE x \in S : \A y \in S : x <= y
         IN <<m>> \o SortedSeq(S \ {m})

\* settled promises
Resolved(v) == [status |-> "resolved", val |-> Some(v), err |-> ""]
Rejected(e) == [status |-> "rejected", val |-> Null, err |-> e]
Pending == [status |-> "pending", val |-> Null, err |-> ""]

\* ------------------------------------------------------------ state
VARIABLES
    exercises,      \* object store 'exercises': name -> Exercise
    records,        \* object store 'records': id -> ExerciseRecord
    recordKeyGen,   \* key generator of 'records' (next key it hands out)
    plans,          \* object store 'plans': id -> Plan
    planKeyGen,     \* key generator of 'plans'
    txq,            \* transactions created and not yet finished, oldest first
    pc,             \* per caller: where its current call stands
    call,           \* per caller: the call in progress (method and arguments)
    res,            \* per caller: the promise of the call in progress
    quiet,          \* history: the last write call that settled undisturbed (no other write
                    \* in flight with it), while no write has been called since
    clean,          \* history, per caller: its write in progress met no other writer
    after,          \* history, per caller: the value of quiet when its read was issued
    idLog,          \* history: the ids addRecord resolved with, the latest of them, and
                    \* whether it was handed out while an earlier one was no longer stored
    conn,           \* per caller: the connections its current call opened, each "open",
                    \* "closing" (close() called, transactions still to finish) or "closed"
    form            \* the form or list on screen (React state of PlanForm,
                    \* AddExerciseButton, EditExercise or RecordList), or none

vars == <<exercises, records, recordKeyGen, plans, planKeyGen, txq, pc, call, res,
          quiet, clean, after, idLog, conn, form>>

stores == <<exercises, records, recordKeyGen, plans, planKeyGen>>
history == <<quiet, clean, after, idLog>>

EmptyStore == <<>>
NoCall == [op |-> "none"]
NoForm == [kind |-> "none"]

\* ------------------------------------------- object store primitives
\* IDBObjectStore.put / delete on a store seen as a function key -> value
KeyedPut(store, k, v) == [x \in (DOMAIN store) \cup {k} |-> IF x = k THEN v ELSE store[x]]
KeyedDelete(store, k) == [x \in (DOMAIN store) \ {k} |-> store[x]]
KeyedDeleteAll(store, ks) == [x \in (DOMAIN store) \ ks |-> store[x]]

\* IDBObjectStore.get: the value, or undefined
KeyedGet(store, k) == IF k \in DOMAIN store THEN Some(store[k]) ELSE Null

\* IDBObjectStore.getAll / IDBIndex.getAll over integer keys: ascending primary key
ValuesByKey(store, ks) == LET ord == SortedSeq(ks) IN [i \in 1..Len(ord) |-> store[ord[i]]]

\* the state of one auto-increment store with in-line key 'id'
AutoStore(items, gen) == [items |-> items, gen |-> gen, key |-> 0, error |-> ""]

\* storing obj in an auto-increment store: a missing id takes the generator's
\* number; an explicit id at or above it moves the generator past that id;
\* noOverwrite (add) fails on a key in use
AutoStoreWrite(items, gen, obj, noOverwrite) ==
    IF "id" \notin DOMAIN obj
    THEN [items |-> KeyedPut(items, gen, Merge(obj, [id |-> gen])),
          gen |-> gen + 1, key |-> gen, error |-> ""]
    ELSE IF noOverwrite /\ obj.id \in DOMAIN items
         THEN [items |-> items, gen |-> gen, key |-> obj.id, error |-> "ConstraintError"]
         ELSE [items |-> KeyedPut(items, obj.id, obj),
               gen |-> Max(gen, obj.id + 1), key |-> obj.id, error |-> ""]

\* ---------------------------------------------- effects of transactions
\* What running a transaction leaves behind: the stores after it, and the
\* settlement of the promise that waits for it.
Eff(ex, recs, rgen, pl, pgen, out) ==
    [ex |-> ex, recs |-> recs, rgen |-> rgen, pl |-> pl, pgen |-> pgen, out |-> out]

\* a transaction that changes nothing (a read, or one that aborted)
Same(out) == Eff(exercises, records, recordKeyGen, plans, planKeyGen, out)

\* store.add / store.put on 'exercises' (keyPath name, no key generator)
ExerciseAdd(store, e) ==
    IF e.name \in DOMAIN store
    THEN [items |-> store, error |-> "ConstraintError"]
    ELSE [items |-> KeyedPut(store, e.name, e), error |-> ""]

ExercisePut(store, e) == [items |-> KeyedPut(store, e.name, e), error |-> ""]

\* addExercise: store.put(exercise)
addExerciseWriteAdd(store, exercise) == ExerciseAdd(store, exercise)
addExerciseWrite(store, exercise) == ExercisePut(store, exercise)

addExerciseTx(exercise) ==
    LET w == addExerciseWrite(exercises, exercise)
    IN IF w.error # "" THEN Same(Rejected(w.error))
       ELSE Eff(w.items, records, recordKeyGen, plans, planKeyGen, Resolved(TRUE))

\* getExercise: store.get(exerciseName)
getExerciseTx(exerciseName) == Same(Resolved(KeyedGet(exercises, exerciseName)))

\* getAllExercises: store.getAll(), as the set of stored exercises
getAllExercisesTx == Same(Resolved({exercises[n] : n \in DOMAIN exercises}))

\* populateSampleExercises: store.put of every sample, one transaction
RECURSIVE PutAll(_, _)
PutAll(store, es) ==
    IF es = {} THEN store
    ELSE LET e == CHOOSE x \in es : TRUE IN PutAll(ExercisePut(store, e).items, es \ {e})

populateSampleExercisesTx(samples) ==
    Eff(PutAll(exercises, samples), records, recordKeyGen, plans, planKeyGen, Resolved(TRUE))

\* updateExercise: store.delete(oldName), then store.add(updatedExercise);
\* the add's error event is not cancelled, so a failed add aborts the
\* transaction and the delete is rolled back
updateExerciseInsertPut(store, updatedExercise) == ExercisePut(store, updatedExercise)
updateExerciseInsert(store, updatedExercise) == ExerciseAdd(store, updatedExercise)

\* addRequest.onerror rejects and does not call preventDefault()
updateExerciseErrorPreventedYes == TRUE
updateExerciseErrorPrevented == FALSE

\* the transaction spans the exercises store only: the records are as they were
updateExerciseRecordsRenamed(recs, oldName, updatedExercise) ==
    [k \in DOMAIN recs |->
        IF recs[k].exerciseName = oldName
        THEN [recs[k] EXCEPT !.exerciseName = updatedExercise.name] ELSE recs[k]]
updateExerciseRecords(recs, oldName, updatedExercise) == recs

updateExerciseTx(oldName, updatedExercise) ==
    LET afterDelete == KeyedDelete(exercises, oldName)
        w == updateExerciseInsert(afterDelete, updatedExercise)
    IN IF w.error = ""
       THEN Eff(w.items, updateExerciseRecords(records, oldName, updatedExercise),
                recordKeyGen, plans, planKeyGen, Resolved(TRUE))
       ELSE IF updateExerciseErrorPrevented
            THEN Eff(afterDelete, records, recordKeyGen, plans, planKeyGen, Rejected(w.error))
            ELSE Same(Rejected(w.error))

\* deleteExercise, first loop: the ids handed to recordStore.delete
deleteExerciseIdsFirstOnly(recs) == IF Len(recs) = 0 THEN {} ELSE {recs[1].id}
deleteExerciseIds(recs) == {recs[i].id : i \in {j \in 1..Len(recs) : recs[j].id # 0}}

\* deleteExercise's and clearAllExercises's transactions; nothing waits for them
deleteRecordsTx(ids) ==
    Eff(exercises, KeyedDeleteAll(records, ids), recordKeyGen, plans, planKeyGen, Pending)

deleteExerciseKeyTx(exerciseName) ==
    Eff(KeyedDelete(exercises, exerciseName), records, recordKeyGen, plans, planKeyGen, Pending)

\* store.clear() leaves the key generator where it is
KeyGenAfterClearReset(gen) == 1
KeyGenAfterClear(gen) == gen

clearRecordsTx(out) ==
    Eff(exercises, EmptyStore, KeyGenAfterClear(recordKeyGen), plans, planKeyGen, out)

clearExercisesTxKeeping == Same(Pending)
clearExercisesTx == Eff(EmptyStore, records, recordKeyGen, plans, planKeyGen, Pending)

\* addRecord: the object handed to store.add; it never carries the input's id
addRecordObjectSpread(record, today, now) ==
    Merge([exerciseName |-> record.exerciseName,
           date |-> IF record.date # <<>> THEN record.date ELSE today,
           time |-> IF record.time # <<>> THEN record.time ELSE now,
           count |-> record.count,
           rpe |-> IF IsSome(record.rpe) /\ record.rpe # Some(0) THEN record.rpe ELSE Null,
           note |-> record.note,
           weight |-> IF IsSome(record.weight) /\ record.weight # Some(0) THEN record.weight ELSE Null,
           unit |-> IF record.unit # "" THEN record.unit ELSE "lbs"],
          IF "id" \in DOMAIN record THEN [id |-> record.id] ELSE <<>>)
addRecordObject(record, today, now) ==
    [exerciseName |-> record.exerciseName,
     date |-> IF record.date # <<>> THEN record.date ELSE today,
     time |-> IF record.time # <<>> THEN record.time ELSE now,
     count |-> record.count,
     rpe |-> IF IsSome(record.rpe) /\ record.rpe # Some(0) THEN record.rpe ELSE Null,
     note |-> record.note,
     weight |-> IF IsSome(record.weight) /\ record.weight # Some(0) THEN record.weight ELSE Null,
     unit |-> IF record.unit # "" THEN record.unit ELSE "lbs"]

\* addRecord: count is parsed when it is not a number
addRecordCount(count) == IF count.t = "number" THEN count.n ELSE ParseInt(count.s)

addRecordTx(obj) ==
    LET w == AutoStoreWrite(records, recordKeyGen, obj, TRUE)
    IN IF w.error # "" THEN Same(Rejected(w.error))
       ELSE Eff(exercises, w.items, w.gen, plans, planKeyGen, Resolved(w.key))

\* getRecordsByExercise: index('exerciseNameIndex').getAll(exerciseName)
getRecordsByExerciseTx(exerciseName) ==
    Same(Resolved(ValuesByKey(records,
        {k \in DOMAIN records : "exerciseName" \in DOMAIN records[k]
                                   /\ records[k].exerciseName = exerciseName})))

\* ---- getExerciseStats: the aggregate computed from getRecordsByExercise
\* new Date(date).getTime() of a date string of digits: later dates, later times
DateTime(date) == ParseInt(date)

\* Array.prototype.sort with a comparator on the dates (stable): sign 1 is
\* ascending (a - b), sign -1 descending (b - a)
SortByDate(rs, sign) ==
    LET key(i) == sign * DateTime(rs[i].date)
        rank(i) == Cardinality({j \in 1..Len(rs) :
                       key(j) < key(i) \/ (key(j) = key(i) /\ j < i)}) + 1
    IN [n \in 1..Len(rs) |-> rs[CHOOSE i \in 1..Len(rs) : rank(i) = n]]

\* counts.reduce((sum, count) => sum + count, 0)
RECURSIVE SumSeq(_)
SumSeq(q) == IF Len(q) = 0 THEN 0 ELSE SumSeq(SubSeq(q, 1, Len(q) - 1)) + q[Len(q)]

\* Math.max(...counts), Math.min(...counts) of a non-empty array
MathMaxOfFirst(counts) == counts[1]
MathMax(counts) == CHOOSE m \in {counts[i] : i \in 1..Len(counts)} :
                       \A i \in 1..Len(counts) : counts[i] <= m
MathMin(counts) == CHOOSE m \in {counts[i] : i \in 1..Len(counts)} :
                       \A i \in 1..Len(counts) : m <= counts[i]

\* a / b of two numbers, kept as the fraction
Quotient(a, b) == [num |-> a, den |-> b]

\* Number((a / b * 100).toFixed(1)): tenths of a percent, rounded to the
\* nearest; a positive number divided by zero is Infinity
Finite(tenths) == [finite |-> TRUE, tenths |-> tenths]
Infinity == [finite |-> FALSE, tenths |-> 0]
RoundedPercent(a, b) ==
    IF b = 0 THEN Infinity
    ELSE LET n == IF b > 0 THEN a ELSE -a
             d == IF b > 0 THEN b ELSE -b
         IN Finite(IF n >= 0 THEN (2000 * n + d) \div (2 * d)
                   ELSE -((2000 * (-n) + d) \div (2 * d)))

ExerciseStatsOf(exerciseName, rs) ==
    IF Len(rs) = 0 THEN [exerciseName |-> exerciseName, stats |-> Null]
    ELSE LET counts == [i \in 1..Len(rs) |-> rs[i].count]
             descending == SortByDate(rs, -1)
             ascending == SortByDate(descending, 1)
             maxCount == MathMax(counts)
             firstWorkout == ascending[1]
             rpeCounts == SelectSeq(rs, LAMBDA r : IsSome(r.rpe))
         IN [exerciseName |-> exerciseName,
             stats |-> Some(
               [totalWorkouts |-> Len(rs),
                averageCount |-> Quotient(SumSeq(counts), Len(counts)),
                maxCount |-> maxCount,
                minCount |-> MathMin(counts),
                lastWorkout |-> descending[1],
                firstWorkout |-> firstWorkout,
                improvement |-> IF maxCount > firstWorkout.count
                                THEN RoundedPercent(maxCount - firstWorkout.count,
                                                    firstWorkout.count)
                                ELSE Finite(0),
                averageRPE |-> IF Len(rpeCounts) > 0
                               THEN Quotient(SumSeq([i \in 1..Len(rpeCounts) |-> rpeCounts[i].rpe[1]]),
                                             Len(rpeCounts))
                               ELSE Quotient(0, 1)])]

getExerciseStatsTx(exerciseName) ==
    Same(Resolved(ExerciseStatsOf(exerciseName, getRecordsByExerciseTx(exerciseName).out.val[1])))

\* getExerciseProgress: awaits getExerciseStats and reads stats.stats!.totalWorkouts;
\* reading a property of null throws a TypeError, which rejects the promise
getExerciseProgressOf(stats) ==
    IF stats.stats = Null THEN Rejected("TypeError")
    ELSE IF stats.stats[1].totalWorkouts = 0 THEN Resolved(Null)
    ELSE Resolved(Some(stats))

getExerciseProgressTx(exerciseName) ==
    Same(getExerciseProgressOf(getExerciseStatsTx(exerciseName).out.val[1]))

\* IDBKeyRange.bound(startDate, endDate): both ends closed
DateRangeUpperOpen(startDate, endDate) ==
    [lower |-> startDate, upper |-> endDate, lowerOpen |-> FALSE, upperOpen |-> TRUE]
DateRange(startDate, endDate) ==
    [lower |-> startDate, upper |-> endDate, lowerOpen |-> FALSE, upperOpen |-> FALSE]

InRange(r, k) ==
    /\ IF r.lowerOpen THEN StrLess(r.lower, k) ELSE StrLeq(r.lower, k)
    /\ IF r.upperOpen THEN StrLess(k, r.upper) ELSE StrLeq(k, r.upper)

\* index('dateIndex').getAll(range): ascending date, then ascending id
RECURSIVE ByDateThenKey(_, _)
ByDateThenKey(store, ks) ==
    IF ks = {} THEN <<>>
    ELSE LET m == CHOOSE x \in ks : \A y \in ks :
                      \/ StrLess(store[x].date, store[y].date)
                      \/ store[x].date = store[y].date /\ x <= y
         IN <<store[m]>> \o ByDateThenKey(store, ks \ {m})

getRecordsByDateRangeTx(range) ==
    Same(Resolved(ByDateThenKey(records, {k \in DOMAIN records : InRange(range, records[k].date)})))

\* getAllRecords: store.getAll()
getAllRecordsTx == Same(Resolved(ValuesByKey(records, DOMAIN records)))

\* deleteRecord: store.delete(recordId)
deleteRecordTx(recordId) ==
    Eff(exercises, KeyedDelete(records, recordId), recordKeyGen, plans, planKeyGen, Resolved(TRUE))

\* updateRecord: store.get(id); not found rejects, else put of the merge
updateRecordMissingNever(existingRecord) == FALSE
updateRecordMissing(existingRecord) == ~IsSome(existingRecord)

updateRecordTx(id, record) ==
    LET existingRecord == KeyedGet(records, id)
    IN IF updateRecordMissing(existingRecord) THEN Same(Rejected("Record not found"))
       ELSE LET updatedRecord == IF IsSome(existingRecord) THEN Merge(existingRecord[1], record) ELSE record
                w == AutoStoreWrite(records, recordKeyGen, updatedRecord, FALSE)
            IN Eff(exercises, w.items, w.gen, plans, planKeyGen, Resolved(TRUE))

\* clearAllRecords: store.clear(), awaited
clearAllRecordsTx == clearRecordsTx(Resolved(TRUE))

\* createIndex('nameIndex', 'name', { unique: true }) on 'plans'
PlanNameIndexNotUnique == FALSE
PlanNameIndexUnique == TRUE

\* store.add / store.put on 'plans': the key as in any auto-increment store,
\* then the unique name index refuses a name another key holds
PlanWrite(items, gen, obj, noOverwrite) ==
    LET w == AutoStoreWrite(items, gen, obj, noOverwrite)
    IN IF w.error # "" THEN w
       ELSE IF /\ PlanNameIndexUnique
               /\ "name" \in DOMAIN obj
               /\ \E k \in (DOMAIN items) \ {w.key} :
                      "name" \in DOMAIN items[k] /\ items[k].name = obj.name
            THEN [items |-> items, gen |-> gen, key |-> w.key, error |-> "ConstraintError"]
            ELSE w

\* getAllPlans: store.getAll()
getAllPlansTx == Same(Resolved(ValuesByKey(plans, DOMAIN plans)))

\* addPlan: the object handed to store.add
addPlanObject(plan, now) == Merge(plan, [createdAt |-> now])

addPlanTx(obj) ==
    LET w == PlanWrite(plans, planKeyGen, obj, TRUE)
    IN IF w.error # "" THEN Same(Rejected(w.error))
       ELSE Eff(exercises, records, recordKeyGen, w.items, w.gen, Resolved(w.key))

\* updatePlan: store.get(id); not found rejects, else put of the merge
updatePlanMissingNever(existingPlan) == FALSE
updatePlanMissing(existingPlan) == ~IsSome(existingPlan)

\* the object handed to store.put: { ...existingPlan, ...plan }
updatePlanMergeAppending(existingPlan, plan) ==
    Merge(existingPlan, [f \in DOMAIN plan |->
                            IF f = "name" /\ "name" \in DOMAIN existingPlan
                            THEN existingPlan.name \o plan.name ELSE plan[f]])
updatePlanMerge(existingPlan, plan) == Merge(existingPlan, plan)

updatePlanTx(id, plan) ==
    LET existingPlan == KeyedGet(plans, id)
    IN IF updatePlanMissing(existingPlan) THEN Same(Rejected("Plan not found"))
       ELSE LET updatedPlan == IF IsSome(existingPlan)
                               THEN updatePlanMerge(existingPlan[1], plan) ELSE plan
                w == PlanWrite(plans, planKeyGen, updatedPlan, FALSE)
            IN IF w.error # "" THEN Same(Rejected(w.error))
               ELSE Eff(exercises, records, recordKeyGen, w.items, w.gen, Resolved(TRUE))

\* deletePlan: store.delete(id); resolves with no value
deletePlanTx(id) ==
    Eff(exercises, records, recordKeyGen, KeyedDelete(plans, id), planKeyGen,
        [status |-> "resolved", val |-> Null, err |-> ""])

\* clearAllPlans: store.clear()
clearAllPlansTx == Eff(exercises, records, recordKeyGen, EmptyStore, planKeyGen, Resolved(TRUE))

\* --------------------------------------------------------- the engine
\* a transaction as db.transaction(scope, mode) creates it, with the requests
\* its creator placed on it: owner is the caller, awaited tells whether a
\* promise of the owner settles from its requests
Tx(p, kind, scope, mode, arg, awaited) ==
    [owner |-> p, kind |-> kind, scope |-> scope, mode |-> mode, arg |-> arg,
     awaited |-> awaited]

\* what running transaction t does to the stores and to the waiting promise
Run(t) ==
    CASE t.kind = "addExercise" -> addExerciseTx(t.arg.exercise)
      [] t.kind = "getExercise" -> getExerciseTx(t.arg.exerciseName)
      [] t.kind = "getAllExercises" -> getAllExercisesTx
      [] t.kind = "populateSampleExercises" -> populateSampleExercisesTx(t.arg.samples)
      [] t.kind = "updateExercise" -> updateExerciseTx(t.arg.oldName, t.arg.updatedExercise)
      [] t.kind = "deleteExercise.records" -> deleteRecordsTx(t.arg.ids)
      [] t.kind = "deleteExercise.exercise" -> deleteExerciseKeyTx(t.arg.exerciseName)
      [] t.kind = "clearAllExercises.records" -> clearRecordsTx(Pending)
      [] t.kind = "clearAllExercises.exercises" -> clearExercisesTx
      [] t.kind = "addRecord" -> addRecordTx(t.arg.obj)
      [] t.kind = "getRecordsByExercise" -> getRecordsByExerciseTx(t.arg.exerciseName)
      [] t.kind = "getExerciseStats" -> getExerciseStatsTx(t.arg.exerciseName)
      [] t.kind = "getExerciseProgress" -> getExerciseProgressTx(t.arg.exerciseName)
      [] t.kind = "getRecordsByDateRange" -> getRecordsByDateRangeTx(t.arg.range)
      [] t.kind = "getAllRecords" -> getAllRecordsTx
      [] t.kind = "deleteRecord" -> deleteRecordTx(t.arg.recordId)
      [] t.kind = "updateRecord" -> updateRecordTx(t.arg.id, t.arg.record)
      [] t.kind = "clearAllRecords" -> clearAllRecordsTx
      [] t.kind = "getAllPlans" -> getAllPlansTx
      [] t.kind = "addPlan" -> addPlanTx(t.arg.obj)
      [] t.kind = "updatePlan" -> updatePlanTx(t.arg.id, t.arg.plan)
      [] t.kind = "deletePlan" -> deletePlanTx(t.arg.id)
      [] t.kind = "clearAllPlans" -> clearAllPlansTx

\* transactions conflict when their scopes overlap and one of them writes
Conflict(a, b) ==
    /\ a.scope \cap b.scope # {}
    /\ a.mode = "readwrite" \/ b.mode = "readwrite"

\* the i-th waiting transaction may run: no older one conflicts with it
CanRun(i) == \A j \in 1..(i - 1) : ~Conflict(txq[j], txq[i])

RemoveAt(q, i) == [j \in 1..(Len(q) - 1) |-> IF j < i THEN q[j] ELSE q[j + 1]]

\* ------------------------------------------------------------ calls
WriteOps == {"addExercise", "updateExercise", "deleteExercise", "clearAllExercises",
             "populateSampleExercises",
             "addRecord", "deleteRecord", "updateRecord", "clearAllRecords",
             "addPlan", "updatePlan", "deletePlan", "clearAllPlans"}

InFlight(p) == pc[p] \in {"waiting", "snapshot", "resume"}
InFlightWriter(p) == InFlight(p) /\ call[p].op \in WriteOps

\* history kept when caller p calls a write or a read
WriteCalled(p) ==
    /\ quiet' = NoCall
    /\ clean' = [q \in Callers |->
                    IF q = p THEN ~\E r \in Callers \ {p} : InFlightWriter(r) ELSE FALSE]
    /\ UNCHANGED <<after, idLog>>

ReadCalled(p) ==
    /\ after' = [after EXCEPT ![p] = quiet]
    /\ UNCHANGED <<quiet, clean, idLog>>

\* caller p starts a call that creates one transaction and awaits its request
Issue(p, c, kind, scope, mode, arg) ==
    /\ pc[p] = "idle"
    /\ Len(txq) < MaxQueue
    /\ pc' = [pc EXCEPT ![p] = "waiting"]
    /\ call' = [call EXCEPT ![p] = c]
    /\ res' = [res EXCEPT ![p] = Pending]
    /\ txq' = Append(txq, Tx(p, kind, scope, mode, arg, TRUE))
    /\ conn' = [conn EXCEPT ![p] = <<"open">>]
    /\ UNCHANGED <<stores, form>>

\* caller p's call throws: its promise rejects with no transaction awaited
Throw(p, c, e) ==
    /\ pc[p] = "idle"
    /\ pc' = [pc EXCEPT ![p] = "done"]
    /\ call' = [call EXCEPT ![p] = c]
    /\ res' = [res EXCEPT ![p] = Rejected(e)]
    /\ UNCHANGED <<stores, txq, history, form>>

addExercise(p, exercise) ==
    /\ Issue(p, [op |-> "addExercise", exercise |-> exercise],
             "addExercise", {exerciseStore}, "readwrite", [exercise |-> exercise])
    /\ WriteCalled(p)

getExercise(p, exerciseName) ==
    /\ Issue(p, [op |-> "getExercise", exerciseName |-> exerciseName],
             "getExercise", {exerciseStore}, "readonly", [exerciseName |-> exerciseName])
    /\ ReadCalled(p)

getAllExercises(p) ==
    /\ Issue(p, [op |-> "getAllExercises"],
             "getAllExercises", {exerciseStore}, "readonly", <<>>)
    /\ ReadCalled(p)

populateSampleExercises(p, samples) ==
    /\ Issue(p, [op |-> "populateSampleExercises"],
             "populateSampleExercises", {exerciseStore}, "readwrite", [samples |-> samples])
    /\ WriteCalled(p)

updateExercise(p, oldName, updatedExercise) ==
    /\ Issue(p, [op |-> "updateExercise", oldName |-> oldName, updatedExercise |-> updatedExercise],
             "updateExercise", {exerciseStore}, "readwrite",
             [oldName |-> oldName, updatedExercise |-> updatedExercise])
    /\ WriteCalled(p)

\* deleteExercise up to its await of getRecordsByExercise
deleteExercise(p, exerciseName) ==
    /\ pc[p] = "idle"
    /\ Len(txq) < MaxQueue
    /\ pc' = [pc EXCEPT ![p] = "snapshot"]
    /\ call' = [call EXCEPT ![p] = [op |-> "deleteExercise", exerciseName |-> exerciseName]]
    /\ res' = [res EXCEPT ![p] = Pending]
    /\ txq' = Append(txq, Tx(p, "getRecordsByExercise", {recordStore}, "readonly",
                             [exerciseName |-> exerciseName], TRUE))
    /\ conn' = [conn EXCEPT ![p] = <<"open", "open">>]
    /\ WriteCalled(p)
    /\ UNCHANGED <<stores, form>>

\* deleteExercise after the await: both transactions are created, the deletes
\* placed, and true is returned without waiting for either; a rejected read
\* is caught and false returned
deleteExerciseResume(p) ==
    /\ pc[p] = "resume"
    /\ Len(txq) + 2 <= MaxQueue
    /\ pc' = [pc EXCEPT ![p] = "done"]
    /\ IF res[p].status = "resolved"
       THEN /\ txq' = txq \o
                  <<Tx(p, "deleteExercise.records", {recordStore}, "readwrite",
                       [ids |-> deleteExerciseIds(res[p].val[1]),
                        exerciseName |-> call[p].exerciseName], FALSE),
                    Tx(p, "deleteExercise.exercise", {exerciseStore}, "readwrite",
                       [exerciseName |-> call[p].exerciseName], FALSE)>>
            /\ res' = [res EXCEPT ![p] = Resolved(TRUE)]
            /\ quiet' = IF clean[p]
                        THEN Merge(call[p], [status |-> "resolved",
                                             found |-> Len(res[p].val[1])])
                        ELSE quiet
       ELSE /\ txq' = txq
            /\ res' = [res EXCEPT ![p] = Resolved(FALSE)]
            /\ quiet' = quiet
    /\ conn' = [conn EXCEPT ![p][1] = IF res[p].status = "resolved" THEN "closing" ELSE "closed"]
    /\ UNCHANGED <<stores, call, clean, after, idLog, form>>

\* clearAllExercises: both clears are placed and true is returned at once
clearAllExercises(p) ==
    /\ pc[p] = "idle"
    /\ Len(txq) + 2 <= MaxQueue
    /\ pc' = [pc EXCEPT ![p] = "done"]
    /\ call' = [call EXCEPT ![p] = [op |-> "clearAllExercises"]]
    /\ res' = [res EXCEPT ![p] = Resolved(TRUE)]
    /\ txq' = txq \o
          <<Tx(p, "clearAllExercises.records", {recordStore}, "readwrite", <<>>, FALSE),
            Tx(p, "clearAllExercises.exercises", {exerciseStore}, "readwrite", <<>>, FALSE)>>
    /\ quiet' = IF \E r \in Callers \ {p} : InFlightWriter(r) THEN NoCall
                ELSE [op |-> "clearAllExercises", status |-> "resolved", found |-> 0]
    /\ clean' = [q \in Callers |->
                    IF q = p THEN ~\E r \in Callers \ {p} : InFlightWriter(r) ELSE FALSE]
    /\ conn' = [conn EXCEPT ![p] = <<"closing">>]
    /\ UNCHANGED <<after, idLog>>
    /\ UNCHANGED <<stores, form>>

\* addRecord: count is coerced, the object built, store.add placed
addRecordWithin(p, record, today, now, maxKey) ==
    /\ recordKeyGen + Cardinality({q \in Callers : InFlight(q) /\ call[q].op = "addRecord"}) <= maxKey
    /\ Issue(p, [op |-> "addRecord", record |-> record],
             "addRecord", {recordStore}, "readwrite",
             [obj |-> addRecordObject([record EXCEPT !.count = addRecordCount(record.count)],
                                      today, now)])
    /\ WriteCalled(p)

addRecord(p, record, today, now) == addRecordWithin(p, record, today, now, MaxKey)

getRecordsByExercise(p, exerciseName) ==
    /\ Issue(p, [op |-> "getRecordsByExercise", exerciseName |-> exerciseName],
             "getRecordsByExercise", {recordStore}, "readonly", [exerciseName |-> exerciseName])
    /\ ReadCalled(p)

\* getExerciseStats: awaits getRecordsByExercise, then computes the aggregate
getExerciseStats(p, exerciseName) ==
    /\ Issue(p, [op |-> "getExerciseStats", exerciseName |-> exerciseName],
             "getExerciseStats", {recordStore}, "readonly", [exerciseName |-> exerciseName])
    /\ ReadCalled(p)

\* getExerciseProgress: awaits getExerciseStats, then returns null or the stats
getExerciseProgress(p, exerciseName) ==
    /\ Issue(p, [op |-> "getExerciseProgress", exerciseName |-> exerciseName],
             "getExerciseProgress", {recordStore}, "readonly", [exerciseName |-> exerciseName])
    /\ ReadCalled(p)

\* getRecordsByDateRange: IDBKeyRange.bound throws DataError when the lower
\* bound is above the upper one, which rejects the promise
getRecordsByDateRange(p, startDate, endDate) ==
    IF StrLess(endDate, startDate)
    THEN /\ Throw(p, [op |-> "getRecordsByDateRange", startDate |-> startDate,
                       endDate |-> endDate], "DataError")
         /\ conn' = [conn EXCEPT ![p] = <<"open">>]
    ELSE /\ Issue(p, [op |-> "getRecordsByDateRange", startDate |-> startDate, endDate |-> endDate],
                  "getRecordsByDateRange", {recordStore}, "readonly",
                  [range |-> DateRange(startDate, endDate)])
         /\ ReadCalled(p)

getAllRecords(p) ==
    /\ Issue(p, [op |-> "getAllRecords"], "getAllRecords", {recordStore}, "readonly", <<>>)
    /\ ReadCalled(p)

\* deleteRecord: a falsy id throws before anything is opened
deleteRecord(p, recordId) ==
    IF recordId = 0
    THEN /\ Throw(p, [op |-> "deleteRecord", recordId |-> recordId], "Record ID is required")
         /\ UNCHANGED conn
    ELSE /\ Issue(p, [op |-> "deleteRecord", recordId |-> recordId],
                  "deleteRecord", {recordStore}, "readwrite", [recordId |-> recordId])
         /\ WriteCalled(p)

\* updateRecord: a falsy id throws before anything is opened
updateRecord(p, id, record) ==
    IF id = 0
    THEN /\ Throw(p, [op |-> "updateRecord", id |-> id, record |-> record],
                  "Record ID is required")
         /\ UNCHANGED conn
    ELSE /\ Issue(p, [op |-> "updateRecord", id |-> id, record |-> record],
                  "updateRecord", {recordStore}, "readwrite", [id |-> id, record |-> record])
         /\ WriteCalled(p)

clearAllRecords(p) ==
    /\ Issue(p, [op |-> "clearAllRecords"], "clearAllRecords", {recordStore}, "readwrite", <<>>)
    /\ WriteCalled(p)

getAllPlans(p) ==
    /\ Issue(p, [op |-> "getAllPlans"], "getAllPlans", {planStore}, "readonly", <<>>)
    /\ ReadCalled(p)

addPlan(p, plan, now) ==
    /\ planKeyGen + Cardinality({q \in Callers : InFlight(q) /\ call[q].op = "addPlan"}) <= MaxKey
    /\ Issue(p, [op |-> "addPlan", plan |-> plan],
             "addPlan", {planStore}, "readwrite", [obj |-> addPlanObject(plan, now)])
    /\ WriteCalled(p)

updatePlan(p, id, plan) ==
    /\ Issue(p, [op |-> "updatePlan", id |-> id, plan |-> plan],
             "updatePlan", {planStore}, "readwrite", [id |-> id, plan |-> plan])
    /\ WriteCalled(p)

deletePlan(p, id) ==
    /\ Issue(p, [op |-> "deletePlan", id |-> id],
             "deletePlan", {planStore}, "readwrite", [id |-> id])
    /\ WriteCalled(p)

clearAllPlans(p) ==
    /\ Issue(p, [op |-> "clearAllPlans"], "clearAllPlans", {planStore}, "readwrite", <<>>)
    /\ WriteCalled(p)

\* ------------------------------------------------------ engine steps
\* history: how many stored entries the write call c finds under its key
Found(c) ==
    CASE c.op = "addExercise" -> IF c.exercise.name \in DOMAIN exercises THEN 1 ELSE 0
      [] c.op = "updateExercise" -> IF c.oldName \in DOMAIN exercises THEN 1 ELSE 0
      [] c.op = "updateRecord" -> IF c.id \in DOMAIN records THEN 1 ELSE 0
      [] c.op = "updatePlan" -> IF c.id \in DOMAIN plans THEN 1 ELSE 0
      [] OTHER -> 0

\* errors of requests: the handlers reject and do not call preventDefault,
\* so the transaction aborts and its complete event never fires
RequestErrors == {"ConstraintError", "UnknownError"}
Aborts(out) == out.status = "rejected" /\ out.err \in RequestErrors

\* transaction.oncomplete = () => db.close(): the connection of an awaited
\* transaction closes when the transaction completes, and only then
OnComplete(t, out) ==
    IF Aborts(out) THEN conn
    ELSE [conn EXCEPT ![t.owner][IF pc[t.owner] = "snapshot" THEN 2 ELSE 1] = "closed"]

\* the promise of t's owner settles with out: its await continues
Settle(t, out) ==
    IF t.awaited
    THEN /\ res' = [res EXCEPT ![t.owner] = out]
         /\ conn' = OnComplete(t, out)
         /\ pc' = [pc EXCEPT ![t.owner] = IF pc[t.owner] = "snapshot" THEN "resume" ELSE "done"]
         /\ quiet' = IF /\ pc[t.owner] = "waiting"
                        /\ call[t.owner].op \in WriteOps
                        /\ clean[t.owner]
                     THEN Merge(call[t.owner],
                                [status |-> out.status, found |-> Found(call[t.owner])])
                     ELSE quiet
    ELSE UNCHANGED <<res, pc, quiet, conn>>

\* the engine runs the i-th waiting transaction to its end
RunTransaction(i) ==
    /\ i \in 1..Len(txq)
    /\ CanRun(i)
    /\ LET t == txq[i]
           eff == Run(t)
       IN /\ exercises' = eff.ex
          /\ records' = eff.recs
          /\ recordKeyGen' = eff.rgen
          /\ plans' = eff.pl
          /\ planKeyGen' = eff.pgen
          /\ Settle(t, eff.out)
          /\ idLog' = IF t.kind = "addRecord" /\ eff.out.status = "resolved"
                      THEN [issued |-> idLog.issued \cup {eff.out.val[1]},
                            last |-> eff.out.val[1],
                            afterDelete |-> idLog.issued \ DOMAIN records # {}]
                      ELSE idLog
    /\ txq' = RemoveAt(txq, i)
    /\ UNCHANGED <<call, clean, after, form>>

\* the engine fails the i-th waiting transaction (storage error): it aborts
\* with nothing written, and a request with an onerror handler rejects
AbortTransaction(i) ==
    /\ i \in 1..Len(txq)
    /\ CanRun(i)
    /\ Settle(txq[i], Rejected("UnknownError"))
    /\ txq' = RemoveAt(txq, i)
    /\ UNCHANGED <<stores, call, clean, after, idLog, form>>

\* the caller's await continues and the call is over
Return(p) ==
    /\ pc[p] = "done"
    /\ pc' = [pc EXCEPT ![p] = "idle"]
    /\ call' = [call EXCEPT ![p] = NoCall]
    /\ res' = [res EXCEPT ![p] = Pending]
    /\ clean' = [clean EXCEPT ![p] = FALSE]
    /\ after' = [after EXCEPT ![p] = NoCall]
    /\ conn' = [conn EXCEPT ![p] = <<>>]
    /\ UNCHANGED <<stores, txq, quiet, idLog, form>>

\* ------------------------------------------------------------- Init
\* the stores as onupgradeneeded creates them: empty, generators at 1
Init ==
    /\ exercises = EmptyStore
    /\ records = EmptyStore
    /\ recordKeyGen = 1
    /\ plans = EmptyStore
    /\ planKeyGen = 1
    /\ txq = <<>>
    /\ pc = [p \in Callers |-> "idle"]
    /\ call = [p \in Callers |-> NoCall]
    /\ res = [p \in Callers |-> Pending]
    /\ quiet = NoCall
    /\ clean = [p \in Callers |-> FALSE]
    /\ after = [p \in Callers |-> NoCall]
    /\ idLog = [issued |-> {}, last |-> 0, afterDelete |-> FALSE]
    /\ conn = [p \in Callers |-> <<>>]
    /\ form = NoForm

\* ----------------------------------------------------------- inputs
Names == {"Squats", "Plank"}

\* the exercises callers write: two versions of Squats, one Plank
ExerciseInputs ==
    {[name |-> "Squats", type |-> "strength", defaultCount |-> "3s15r",
      instruction |-> "Keep your knees aligned with your toes"],
     [name |-> "Squats", type |-> "strength", defaultCount |-> "3s10r",
      instruction |-> "Keep your knees aligned with your toes"],
     [name |-> "Plank", type |-> "core", defaultCount |-> "30",
      instruction |-> "Hold position with straight back and tight core"]}

\* dates as strings of digits: "01", "02", "10" and the unpadded "2"
Dates == {<<0, 1>>, <<0, 2>>, <<1, 0>>, <<2>>}
Today == <<0, 2>>
Clock == <<0, 7, 3, 0>>

RecordInput(name, date, count) ==
    [exerciseName |-> name, date |-> date, time |-> Clock, count |-> count,
     rpe |-> Some(7), note |-> "", weight |-> Null, unit |-> "lbs"]

NumberCount(n) == [t |-> "number", n |-> n, s |-> <<>>]
StringCount(s) == [t |-> "string", n |-> 0, s |-> s]

\* --------------------------------------- deleting an exercise (cascade)
\* Caller 1, the editor, adds, deletes and reads exercises and reads their
\* records; the other callers, the loggers, log records.
Editor == {1}
Loggers == Callers \ Editor

ExerciseRecordInputs == {RecordInput(n, Today, NumberCount(10)) : n \in Names}
FirstVersions == {e \in ExerciseInputs : e.defaultCount # "3s10r"}

Next ==
    \/ \E p \in Editor, e \in FirstVersions : addExercise(p, e)
    \/ \E p \in Editor, n \in Names : getExercise(p, n)
    \/ \E p \in Editor, n \in Names : deleteExercise(p, n)
    \/ \E p \in Editor : deleteExerciseResume(p)
    \/ \E p \in Loggers, r \in ExerciseRecordInputs : addRecord(p, r, Today, Clock)
    \/ \E p \in Editor, n \in Names : getRecordsByExercise(p, n)
    \/ \E p \in Callers : Return(p)
    \/ \E i \in 1..MaxQueue : RunTransaction(i)

Spec == Init /\ [][Next]_vars

\* the same callers over an engine whose transactions may fail
NextFault ==
    \/ Next
    \/ \E i \in 1..MaxQueue : AbortTransaction(i)

SpecFault == Init /\ [][NextFault]_vars

\* C1: a getRecordsByExercise(n) or getExercise(n) issued after an undisturbed
\* deleteExercise(n) has resolved, with no write called in between, resolves
\* with the empty sequence, respectively with undefined (not found).
DeleteExerciseCascades ==
    \A p \in Callers :
        (/\ pc[p] = "done"
         /\ after[p].op = "deleteExercise")
        => /\ (call[p].op = "getRecordsByExercise"
               /\ call[p].exerciseName = after[p].exerciseName)
              => res[p] = Resolved(<<>>)
           /\ (call[p].op = "getExercise"
               /\ call[p].exerciseName = after[p].exerciseName)
              => res[p] = Resolved(Null)

\* a read of the records of a name settled after a deleteExercise that found
\* two or more records of that name
DeleteExerciseCascadesWitness ==
    \E p \in Callers :
        /\ pc[p] = "done"
        /\ after[p].op = "deleteExercise"
        /\ after[p].found >= 2
        /\ call[p].op = "getRecordsByExercise"
        /\ call[p].exerciseName = after[p].exerciseName
        /\ res[p].status = "resolved"

\* the transactions a deleteExercise left behind have all finished
DeleteExerciseSettled ==
    \A i \in 1..Len(txq) :
        txq[i].kind \notin {"deleteExercise.records", "deleteExercise.exercise"}

\* C2: deleteExercise does not report success while the exercise or one of
\* its records is still stored: once an undisturbed deleteExercise(n) has
\* resolved true and its transactions have finished, with no write called
\* since, neither the exercise n nor a record of n is stored.
DeleteExerciseSurfacesFailure ==
    (quiet.op = "deleteExercise" /\ DeleteExerciseSettled)
    => /\ quiet.exerciseName \notin DOMAIN exercises
       /\ \A k \in DOMAIN records : records[k].exerciseName # quiet.exerciseName

\* C22: deleteExercise(n) removes every record of n that is committed before
\* its record-deletion transaction runs, whatever addRecord calls for n are
\* interleaved with it: when that transaction has run, no record of n is stored.
CascadeRemovesCommittedRecords ==
    [][\A i \in 1..Len(txq) :
          (txq[i].kind = "deleteExercise.records" /\ txq' = RemoveAt(txq, i))
          => \A k \in DOMAIN records' :
                 records'[k].exerciseName # txq[i].arg.exerciseName]_vars

\* ------------------------------------------------ editing exercises
\* The editor adds, reads and renames exercises while the other callers
\* delete them; no records are logged.
NextExercises ==
    \/ \E p \in Editor, e \in ExerciseInputs : addExercise(p, e)
    \/ \E p \in Editor, n \in Names : getExercise(p, n)
    \/ \E p \in Editor, n \in Names, e \in ExerciseInputs : updateExercise(p, n, e)
    \/ \E p \in Callers \ Editor, n \in Names : deleteExercise(p, n)
    \/ \E p \in Callers \ Editor : deleteExerciseResume(p)
    \/ \E p \in Callers : Return(p)
    \/ \E i \in 1..MaxQueue : RunTransaction(i)

SpecExercises == Init /\ [][NextExercises]_vars

\* caller p's awaited call of method op settles in this step
Settles(p, op) == pc[p] = "waiting" /\ call[p].op = op /\ pc'[p] = "done"

\* C3: an updateExercise(oldName, data) whose data.name differs from oldName
\* and is the key of a stored exercise when its transaction runs is rejected,
\* and the exercises store is after it what it was before it.
UpdateExerciseCollisionAtomic ==
    [][\A p \in Callers :
          (/\ Settles(p, "updateExercise")
           /\ call[p].updatedExercise.name # call[p].oldName
           /\ call[p].updatedExercise.name \in DOMAIN exercises)
          => /\ res'[p].status = "rejected"
             /\ exercises' = exercises]_vars

\* a rename onto a stored name was rejected with the constraint error, and
\* both the exercise under oldName and the one under data.name are stored
UpdateExerciseCollisionWitness ==
    \E p \in Callers :
        /\ pc[p] = "done"
        /\ call[p].op = "updateExercise"
        /\ call[p].updatedExercise.name # call[p].oldName
        /\ res[p] = Rejected("ConstraintError")
        /\ call[p].oldName \in DOMAIN exercises
        /\ call[p].updatedExercise.name \in DOMAIN exercises
        /\ exercises[call[p].updatedExercise.name] # call[p].updatedExercise

\* C23: updateExercise never changes the number of stored exercises: a call
\* that resolves replaces exactly the entry stored under oldName, and when no
\* exercise is stored under oldName the exercises store is left as it was.
UpdateExerciseKeepsCount ==
    [][\A p \in Callers :
          Settles(p, "updateExercise")
          => /\ Cardinality(DOMAIN exercises') = Cardinality(DOMAIN exercises)
             /\ call[p].oldName \notin DOMAIN exercises => exercises' = exercises
             /\ (call[p].oldName \in DOMAIN exercises /\ res'[p].status = "resolved")
                => exercises' = KeyedPut(KeyedDelete(exercises, call[p].oldName),
                                         call[p].updatedExercise.name,
                                         call[p].updatedExercise)]_vars

\* C8: a getExercise(e.name) issued after an undisturbed addExercise(e) has
\* settled, with no write called in between, resolves with an exercise equal
\* to e in every field, whether or not the name was stored before.
AddExerciseRoundTrip ==
    \A p \in Callers :
        (/\ pc[p] = "done"
         /\ call[p].op = "getExercise"
         /\ after[p].op = "addExercise"
         /\ after[p].exercise.name = call[p].exerciseName)
        => /\ res[p].status = "resolved"
           /\ res[p].val = Some(Some(after[p].exercise))
           /\ \A f \in {"name", "type", "defaultCount", "instruction"} :
                 res[p].val[1][1][f] = after[p].exercise[f]

\* such a read has settled after an addExercise that replaced a stored exercise
AddExerciseRoundTripWitness ==
    \E p \in Callers :
        /\ pc[p] = "done"
        /\ call[p].op = "getExercise"
        /\ after[p].op = "addExercise"
        /\ after[p].exercise.name = call[p].exerciseName
        /\ after[p].found = 1
        /\ res[p].status = "resolved"

\* ------------------------------------------------- patching records
\* The loggers log records; the editor patches them, with a patch of the
\* count alone and with one that also carries the id 2, and reads them.
IdPatches == {[count |-> 12], [count |-> 12, id |-> 2]}

NextRecordPatches ==
    \/ \E p \in Loggers, r \in ExerciseRecordInputs : addRecord(p, r, Today, Clock)
    \/ \E p \in Editor, id \in 1..MaxKey, pt \in IdPatches : updateRecord(p, id, pt)
    \/ \E p \in Editor : getAllRecords(p)
    \/ \E p \in Callers : Return(p)
    \/ \E i \in 1..MaxQueue : RunTransaction(i)

SpecRecordPatches == Init /\ [][NextRecordPatches]_vars

\* C28: updateRecord(id, patch) changes no record but the one stored under id,
\* whatever the patch carries: the stored ids are the same after the call as
\* before it, and every record under another id is as it was.
UpdateRecordTouchesOnlyId ==
    [][\A p \in Callers :
          Settles(p, "updateRecord")
          => /\ DOMAIN records' = DOMAIN records
             /\ \A k \in (DOMAIN records) \ {call[p].id} : records'[k] = records[k]]_vars

\* ------------------------------------------------ renaming exercises
\* The editor adds and renames exercises and reads their records while the
\* loggers log records.
NextRename ==
    \/ \E p \in Editor, e \in FirstVersions : addExercise(p, e)
    \/ \E p \in Editor, n \in Names, e \in FirstVersions : updateExercise(p, n, e)
    \/ \E p \in Loggers, r \in ExerciseRecordInputs : addRecord(p, r, Today, Clock)
    \/ \E p \in Editor, n \in Names : getRecordsByExercise(p, n)
    \/ \E p \in Callers : Return(p)
    \/ \E i \in 1..MaxQueue : RunTransaction(i)

SpecRename == Init /\ [][NextRename]_vars

\* C27: an updateExercise(oldName, data) whose data.name differs from oldName
\* leaves the records store as it was; when it resolved, the records logged
\* under oldName still carry oldName, getRecordsByExercise(data.name) returns
\* none of them, and no exercise is stored under oldName.
RenameLeavesRecords ==
    [][\A p \in Callers :
          (/\ Settles(p, "updateExercise")
           /\ call[p].updatedExercise.name # call[p].oldName)
          => /\ records' = records
             /\ res'[p].status = "resolved"
                => \A k \in DOMAIN records :
                       records[k].exerciseName = call[p].oldName
                       => /\ records'[k].exerciseName = call[p].oldName
                          /\ LET got == (getRecordsByExerciseTx(
                                             call[p].updatedExercise.name).out.val[1])'
                             IN \A i \in 1..Len(got) : got[i].id # k
                          /\ call[p].oldName \notin DOMAIN exercises']_vars

\* a rename has resolved while a record logged under the old name is stored
RenameLeavesRecordsWitness ==
    \E p \in Callers :
        /\ pc[p] = "done"
        /\ call[p].op = "updateExercise"
        /\ call[p].updatedExercise.name # call[p].oldName
        /\ res[p] = Resolved(TRUE)
        /\ call[p].oldName \notin DOMAIN exercises
        /\ call[p].updatedExercise.name \in DOMAIN exercises
        /\ \E k \in DOMAIN records : records[k].exerciseName = call[p].oldName

\* ---------------------------------------------------- logging records
\* Every caller logs records, concurrently; the editor also deletes records,
\* clears the stores and deletes the exercise.  One input carries a
\* number as count, the other a string, no date and an id of its own.
LoggedRecordInputs ==
    {RecordInput("Squats", Today, NumberCount(10)),
     Merge(RecordInput("Squats", <<>>, StringCount(<<1, 2>>)), [id |-> 1])}

NextRecords ==
    \/ \E p \in Callers, r \in LoggedRecordInputs : addRecord(p, r, Today, Clock)
    \/ \E p \in Editor, id \in 0..MaxKey : deleteRecord(p, id)
    \/ \E p \in Editor : clearAllRecords(p)
    \/ \E p \in Editor : clearAllExercises(p)
    \/ \E p \in Editor : deleteExercise(p, "Squats")
    \/ \E p \in Editor : deleteExerciseResume(p)
    \/ \E p \in Callers : Return(p)
    \/ \E i \in 1..MaxQueue : RunTransaction(i)

SpecRecords == Init /\ [][NextRecords]_vars

\* C5: every addRecord call resolves, with an id above the id of every insert
\* committed before it, the ids of the other calls still in flight included.
ConcurrentAddRecordIds ==
    [][\A p \in Callers :
          Settles(p, "addRecord")
          => /\ res'[p].status = "resolved"
             /\ res'[p].val[1] > idLog.last
             /\ \A q \in Callers \ {p} :
                   (pc[q] = "done" /\ call[q].op = "addRecord")
                   => res[q].status = "resolved" /\ res[q].val[1] < res'[p].val[1]]_vars

\* two addRecord calls have resolved and neither caller has continued yet
ConcurrentAddRecordIdsWitness ==
    \E p, q \in Callers :
        /\ p # q
        /\ pc[p] = "done" /\ call[p].op = "addRecord" /\ res[p].status = "resolved"
        /\ pc[q] = "done" /\ call[q].op = "addRecord" /\ res[q].status = "resolved"

\* C6: the id an addRecord resolves with is above every id an earlier
\* addRecord resolved with, whether or not that record is still stored.
RecordIdsNeverReused ==
    [][\A p \in Callers :
          (Settles(p, "addRecord") /\ res'[p].status = "resolved")
          => \A k \in idLog.issued : res'[p].val[1] > k]_vars

\* an id was handed out while an id handed out earlier was no longer stored,
\* and the store is empty but for the new record
RecordIdsNeverReusedWitness ==
    /\ idLog.afterDelete
    /\ DOMAIN records = {idLog.last}
    /\ Cardinality(idLog.issued) >= 2

\* C17: addRecord resolves with the key the store generated, and the record
\* stored under it carries that key as its id, whether or not the input
\* object carries an id of its own; no other record is touched.
AddRecordIdFromStore ==
    [][\A p \in Callers :
          Settles(p, "addRecord")
          => /\ res'[p] = Resolved(recordKeyGen)
             /\ recordKeyGen \notin DOMAIN records
             /\ DOMAIN records' = DOMAIN records \cup {recordKeyGen}
             /\ records'[recordKeyGen].id = recordKeyGen
             /\ \A k \in DOMAIN records : records'[k] = records[k]]_vars

\* an addRecord whose input carries the id 1 has resolved with the id 2, and
\* the record stored under 2 carries the id 2
AddRecordIdFromStoreWitness ==
    \E p \in Callers :
        /\ pc[p] = "done"
        /\ call[p].op = "addRecord"
        /\ "id" \in DOMAIN call[p].record
        /\ call[p].record.id = 1
        /\ res[p] = Resolved(2)
        /\ 2 \in DOMAIN records
        /\ records[2].id = 2

\* ------------------------------------------------ records by date
\* The editor reads a date range while the loggers log records under any of
\* the dates.
DatedRecordInputs == {RecordInput("Squats", d, NumberCount(10)) : d \in Dates}

NextDates ==
    \/ \E p \in Loggers, r \in DatedRecordInputs : addRecord(p, r, Today, Clock)
    \/ \E p \in Editor, d1 \in Dates, d2 \in Dates : getRecordsByDateRange(p, d1, d2)
    \/ \E p \in Callers : Return(p)
    \/ \E i \in 1..MaxQueue : RunTransaction(i)

SpecDates == Init /\ [][NextDates]_vars

\* the elements of a sequence
Elems(q) == {q[i] : i \in 1..Len(q)}

\* C7: getRecordsByDateRange(start, end) with start <= end resolves, each
\* stored record with start <= date <= end (string order) once, and nothing
\* else; with no such record it resolves with the empty sequence.
DateRangeClosed ==
    [][\A p \in Callers :
          (/\ Settles(p, "getRecordsByDateRange")
           /\ StrLeq(call[p].startDate, call[p].endDate))
          => LET hits == {k \in DOMAIN records :
                            /\ StrLeq(call[p].startDate, records[k].date)
                            /\ StrLeq(records[k].date, call[p].endDate)}
             IN /\ res'[p].status = "resolved"
                /\ Elems(res'[p].val[1]) = {records[k] : k \in hits}
                /\ Len(res'[p].val[1]) = Cardinality(hits)]_vars

\* a range with distinct ends has resolved with a record dated at its upper
\* end while a record outside of the range is stored
DateRangeClosedWitness ==
    \E p \in Callers :
        /\ pc[p] = "done"
        /\ call[p].op = "getRecordsByDateRange"
        /\ call[p].startDate # call[p].endDate
        /\ res[p].status = "resolved"
        /\ \E i \in 1..Len(res[p].val[1]) : res[p].val[1][i].date = call[p].endDate
        /\ \E k \in DOMAIN records : StrLess(call[p].endDate, records[k].date)

\* ------------------------------------------------------ statistics
\* The loggers log records of two exercises with counts 0, 10 and 15 under
\* two dates; the editor asks for an exercise's statistics and deletes records.
StatsCounts == {0, 10, 15}
StatsRecordInputs ==
    {RecordInput(n, d, NumberCount(c)) : n \in Names, d \in {<<0, 1>>, <<0, 2>>}, c \in StatsCounts}

NextStats ==
    \/ \E p \in Loggers, r \in StatsRecordInputs : addRecord(p, r, Today, Clock)
    \/ \E p \in Editor, n \in Names : getExerciseStats(p, n)
    \/ \E p \in Editor, id \in 1..MaxKey : deleteRecord(p, id)
    \/ \E p \in Callers : Return(p)
    \/ \E i \in 1..MaxQueue : RunTransaction(i)

SpecStats == Init /\ [][NextStats]_vars

\* the ids of the stored records of an exercise, and the sum of their counts
RecordsOf(exerciseName) == {k \in DOMAIN records : records[k].exerciseName = exerciseName}

RECURSIVE SumOfCounts(_)
SumOfCounts(ks) ==
    IF ks = {} THEN 0
    ELSE LET k == CHOOSE x \in ks : TRUE IN records[k].count + SumOfCounts(ks \ {k})

\* the first-ever record among ks: the earliest date, the lowest id on a tie
FirstEver(ks) ==
    CHOOSE k \in ks : \A j \in ks :
        \/ StrLess(records[k].date, records[j].date)
        \/ records[k].date = records[j].date /\ k <= j

\* C12: getExerciseStats of an exercise with records resolves with
\* totalWorkouts the number of its records, maxCount the largest and minCount
\* the smallest count, averageCount the sum of the counts divided by their
\* number; it resolves with stats null exactly when the exercise has no record.
ExerciseStatsAggregates ==
    [][\A p \in Callers :
          Settles(p, "getExerciseStats")
          => LET ks == RecordsOf(call[p].exerciseName)
                 st == res'[p].val[1].stats
             IN /\ res'[p].status = "resolved"
                /\ (st = Null) <=> (ks = {})
                /\ ks # {} =>
                      /\ st[1].totalWorkouts = Cardinality(ks)
                      /\ \E k \in ks : records[k].count = st[1].maxCount
                      /\ \A k \in ks : records[k].count <= st[1].maxCount
                      /\ \E k \in ks : records[k].count = st[1].minCount
                      /\ \A k \in ks : records[k].count >= st[1].minCount
                      /\ st[1].averageCount.den # 0
                      /\ st[1].averageCount.num * Cardinality(ks)
                            = SumOfCounts(ks) * st[1].averageCount.den]_vars

\* statistics over two records with different counts have been returned
ExerciseStatsAggregatesWitness ==
    \E p \in Callers :
        /\ pc[p] = "done"
        /\ call[p].op = "getExerciseStats"
        /\ res[p].status = "resolved"
        /\ res[p].val[1].stats # Null
        /\ res[p].val[1].stats[1].totalWorkouts = 2
        /\ res[p].val[1].stats[1].minCount < res[p].val[1].stats[1].maxCount
        /\ res[p].val[1].stats[1].firstWorkout.count = res[p].val[1].stats[1].maxCount
        /\ Cardinality(RecordsOf(call[p].exerciseName)) = 2

\* C13: getExerciseStats of an exercise with records reports a finite
\* improvement: (max - first) / first * 100 to the nearest tenth when the
\* largest count exceeds the count of the first-ever record, and 0 otherwise.
ImprovementIsFinitePercentGain ==
    [][\A p \in Callers :
          (Settles(p, "getExerciseStats") /\ RecordsOf(call[p].exerciseName) # {})
          => LET ks == RecordsOf(call[p].exerciseName)
                 first == records[FirstEver(ks)].count
                 best == CHOOSE c \in {records[k].count : k \in ks} :
                             \A k \in ks : records[k].count <= c
                 improvement == res'[p].val[1].stats[1].improvement
                 gap == improvement.tenths * first - 1000 * (best - first)
             IN /\ improvement.finite
                /\ IF best > first
                   THEN 2 * (IF gap >= 0 THEN gap ELSE -gap) <= (IF first >= 0 THEN first ELSE -first)
                   ELSE improvement.tenths = 0]_vars

\* ---- the progress helper: the loggers log records, the editor asks for
\* the progress of an exercise and deletes records
NextProgress ==
    \/ \E p \in Loggers, r \in StatsRecordInputs : addRecord(p, r, Today, Clock)
    \/ \E p \in Editor, n \in Names : getExerciseProgress(p, n)
    \/ \E p \in Editor, id \in 1..MaxKey : deleteRecord(p, id)
    \/ \E p \in Callers : Return(p)
    \/ \E i \in 1..MaxQueue : RunTransaction(i)

SpecProgress == Init /\ [][NextProgress]_vars

\* C25: getExerciseProgress(n) resolves, never rejects: with null when n has no
\* record, and with the stats getExerciseStats(n) computes otherwise.
ExerciseProgressNullWhenEmpty ==
    [][\A p \in Callers :
          Settles(p, "getExerciseProgress")
          => /\ res'[p].status = "resolved"
             /\ IF RecordsOf(call[p].exerciseName) = {}
                THEN res'[p].val = Some(Null)
                ELSE res'[p].val =
                         Some(Some(getExerciseStatsTx(call[p].exerciseName).out.val[1]))]_vars

\* ---------------------------------------------------------- plans
\* schedules as strings of characters: Mon/Wed/Fri, one too short, one with
\* a character that is neither 0 nor 1
MonWedFri == <<"1", "0", "1", "0", "1", "0", "0">>
TooShort == <<"1", "0", "1">>
BadDigit == <<"1", "0", "2", "0", "1", "0", "0">>

PlanNames == {"Basic Fitness", "Cardio Focus"}

PlanInput(name, schedule) ==
    [name |-> name, exercises |-> <<[name |-> "Squats", count |-> -1]>>,
     schedule |-> schedule, createdAt |-> "T1"]

PlanInputs == {PlanInput(n, sch) : n \in PlanNames, sch \in {MonWedFri, TooShort, BadDigit}}

\* what the plan form passes to updatePlan: a new name, a new name with the
\* id of plan 2, a schedule
PlanPatches ==
    {[name |-> n] : n \in PlanNames}
    \cup {[name |-> "Basic Fitness", id |-> 2], [schedule |-> MonWedFri]}

\* what the record form passes to updateRecord
RecordPatches == {[count |-> 12]}

\* Every caller adds plans, concurrently; the editor also changes, deletes,
\* clears and reads them.
NextPlans ==
    \/ \E p \in Callers, pl \in PlanInputs : addPlan(p, pl, "T2")
    \/ \E p \in Editor, id \in 1..MaxKey, pt \in PlanPatches : updatePlan(p, id, pt)
    \/ \E p \in Editor, id \in 1..MaxKey : deletePlan(p, id)
    \/ \E p \in Editor : clearAllPlans(p)
    \/ \E p \in Editor : getAllPlans(p)
    \/ \E p \in Callers : Return(p)
    \/ \E i \in 1..MaxQueue : RunTransaction(i)

SpecPlans == Init /\ [][NextPlans]_vars

\* the pattern ^[01]{7}$
MatchesSchedule(schedule) ==
    Len(schedule) = 7 /\ \A i \in 1..Len(schedule) : schedule[i] \in {"0", "1"}

\* C4: addPlan(p) of a plan whose schedule does not match ^[01]{7}$ rejects
\* and leaves the plans store as it was.
AddPlanRejectsBadSchedule ==
    [][\A p \in Callers :
          (Settles(p, "addPlan") /\ ~MatchesSchedule(call[p].plan.schedule))
          => /\ res'[p].status = "rejected"
             /\ plans' = plans]_vars

\* the name and the key updatePlan(id, plan) stores the merged plan under
UpdatedPlanName(id, plan) == IF "name" \in DOMAIN plan THEN plan.name ELSE plans[id].name
UpdatedPlanKey(id, plan) == IF "id" \in DOMAIN plan THEN plan.id ELSE id

\* the call c of addPlan or updatePlan would store a name another plan holds
WouldDuplicate(c) ==
    IF c.op = "addPlan"
    THEN \E k \in DOMAIN plans : plans[k].name = c.plan.name
    ELSE /\ c.id \in DOMAIN plans
         /\ \E k \in (DOMAIN plans) \ {UpdatedPlanKey(c.id, c.plan)} :
               plans[k].name = UpdatedPlanName(c.id, c.plan)

\* C9: no two stored plans have the same name, and an addPlan or updatePlan
\* that would store a name another plan holds rejects and leaves the plans
\* store as it was.
PlanNamesUnique ==
    [][/\ \A j, k \in DOMAIN plans' : plans'[j].name = plans'[k].name => j = k
       /\ \A p \in Callers :
             (/\ Settles(p, "addPlan") \/ Settles(p, "updatePlan")
              /\ WouldDuplicate(call[p]))
             => /\ res'[p].status = "rejected"
                /\ plans' = plans]_vars

\* two plans are stored and an updatePlan that renames one of them to the
\* name of the other has been rejected with the constraint error
PlanNamesUniqueWitness ==
    \E p \in Callers :
        /\ pc[p] = "done"
        /\ call[p].op = "updatePlan"
        /\ res[p] = Rejected("ConstraintError")
        /\ call[p].id \in DOMAIN plans
        /\ "name" \in DOMAIN call[p].plan
        /\ plans[call[p].id].name # call[p].plan.name
        /\ \E k \in DOMAIN plans : plans[k].name = call[p].plan.name

\* C11: updatePlan(id, {name: X}) is idempotent on the stored data: in the
\* state an updatePlan with such a patch has settled in, applying the same
\* call once more leaves every stored plan as it is, in every field.
UpdatePlanIdempotent ==
    [][\A p \in Callers :
          (Settles(p, "updatePlan") /\ DOMAIN call[p].plan = {"name"})
          => (updatePlanTx(call[p].id, call[p].plan).pl)' = plans']_vars

\* an undisturbed updatePlan with a patch {name: X} that found its plan has
\* resolved, and the stored plan carries the name X
UpdatePlanIdempotentWitness ==
    \E p \in Callers :
        /\ pc[p] = "done"
        /\ call[p].op = "updatePlan"
        /\ DOMAIN call[p].plan = {"name"}
        /\ res[p] = Resolved(TRUE)
        /\ quiet # NoCall /\ quiet.op = "updatePlan" /\ quiet.found = 1
        /\ call[p].id \in DOMAIN plans
        /\ plans[call[p].id].name = call[p].plan.name

\* ------------------------------------------------- clearing everything
\* The editor adds exercises, clears all exercises and reads all exercises
\* and all records; the loggers log records and add plans.
NextClear ==
    \/ \E p \in Editor, e \in FirstVersions : addExercise(p, e)
    \/ \E p \in Editor : clearAllExercises(p)
    \/ \E p \in Editor : getAllExercises(p)
    \/ \E p \in Editor : getAllRecords(p)
    \/ \E p \in Loggers, r \in ExerciseRecordInputs : addRecord(p, r, Today, Clock)
    \/ \E p \in Loggers : addPlan(p, PlanInput("Basic Fitness", MonWedFri), "T2")
    \/ \E p \in Callers : Return(p)
    \/ \E i \in 1..MaxQueue : RunTransaction(i)

SpecClear == Init /\ [][NextClear]_vars

\* the engine runs a transaction of clearAllExercises in this step
ClearRuns ==
    \E i \in 1..Len(txq) :
        /\ txq[i].kind \in {"clearAllExercises.records", "clearAllExercises.exercises"}
        /\ txq' = RemoveAt(txq, i)

\* C14: a getAllExercises or getAllRecords issued after clearAllExercises has
\* resolved, with no other write call in between, resolves with the empty
\* sequence, and the transactions of clearAllExercises leave the plans as
\* they are.
ClearAllExercisesEmpties ==
    [][/\ \A p \in Callers :
             /\ (Settles(p, "getAllExercises") /\ after[p].op = "clearAllExercises")
                => res'[p] = Resolved({})
             /\ (Settles(p, "getAllRecords") /\ after[p].op = "clearAllExercises")
                => res'[p] = Resolved(<<>>)
       /\ ClearRuns => plans' = plans /\ planKeyGen' = planKeyGen]_vars

\* getAllRecords issued after an undisturbed clearAllExercises has resolved
\* with the empty sequence, the store having handed out a record id before
\* and a plan being stored
ClearAllExercisesEmptiesWitness ==
    \E p \in Callers :
        /\ pc[p] = "done"
        /\ call[p].op = "getAllRecords"
        /\ after[p].op = "clearAllExercises"
        /\ res[p] = Resolved(<<>>)
        /\ recordKeyGen > 1
        /\ plans # EmptyStore

\* ------------------------------------------------- seeding at start
\* initializeExerciseDatabase: a chain of awaited ExerciseDB calls.  call[p].step
\* names the call being awaited; exercisesBefore is history, the exercises
\* store when the chain started.
TueThuSat == <<"0", "1", "0", "1", "0", "1", "0">>
SatSun == <<"0", "0", "0", "0", "0", "1", "1">>

\* the plans populateSampleData hands to addPlan, in its order
SamplePlans ==
    <<[name |-> "Basic Fitness",
       exercises |-> <<[name |-> "Push-ups", count |-> -1],
                       [name |-> "Jumping Jacks", count |-> 50],
                       [name |-> "Squats", count |-> -1]>>,
       schedule |-> MonWedFri],
      [name |-> "Cardio Focus",
       exercises |-> <<[name |-> "Jumping Jacks", count |-> 100],
                       [name |-> "Plank", count |-> 30]>>,
       schedule |-> TueThuSat],
      [name |-> "Weekend Warrior",
       exercises |-> <<[name |-> "Push-ups", count |-> 20],
                       [name |-> "Squats", count |-> 25],
                       [name |-> "Plank", count |-> 60],
                       [name |-> "Lunges", count |-> 30]>>,
       schedule |-> SatSun]>>

\* the transaction of one awaited call of the chain
ChainTx(kind, store, mode, arg) == [kind |-> kind, scope |-> {store}, mode |-> mode, arg |-> arg]

\* populateSampleData's first await
populateSampleDataStart(c) ==
    [call |-> Merge(c, [step |-> "populateSampleExercises"]),
     tx |-> Some(ChainTx("populateSampleExercises", exerciseStore, "readwrite",
                         [samples |-> FirstVersions]))]

\* the three reads of the return statement start
initializeReturnStart(c) ==
    [call |-> Merge(c, [step |-> "exercises"]),
     tx |-> Some(ChainTx("getAllExercises", exerciseStore, "readonly", <<>>))]

\* where the chain goes when the call it awaited has settled with r: the call
\* record after it and the transaction of the next awaited call, if any
initializeStep(c, r, now) ==
    CASE c.step = "existingExercises" ->
             [call |-> Merge(c, [step |-> "existingPlans",
                                 existingExercises |-> Cardinality(r.val[1])]),
              tx |-> Some(ChainTx("getAllPlans", planStore, "readonly", <<>>))]
      [] c.step = "existingPlans" ->
             LET d == Merge(c, [existingPlans |-> Len(r.val[1])])
             IN IF d.existingExercises = 0 THEN populateSampleDataStart(d)
                ELSE IF d.existingPlans = 0 /\ d.existingExercises > 0
                     THEN populateSampleDataStart(d)
                     ELSE initializeReturnStart(d)
      [] c.step = "populateSampleExercises" ->
             [call |-> Merge(c, [step |-> "addPlan", plan |-> 1]),
              tx |-> Some(ChainTx("addPlan", planStore, "readwrite",
                                  [obj |-> addPlanObject(Merge(SamplePlans[1], [createdAt |-> now]),
                                                         now)]))]
      [] c.step = "addPlan" ->
             IF r.status = "resolved" /\ c.plan < Len(SamplePlans)
             THEN [call |-> Merge(c, [plan |-> c.plan + 1]),
                   tx |-> Some(ChainTx("addPlan", planStore, "readwrite",
                                       [obj |-> addPlanObject(Merge(SamplePlans[c.plan + 1],
                                                                    [createdAt |-> now]), now)]))]
             ELSE initializeReturnStart(c)
      [] c.step = "exercises" ->
             [call |-> Merge(c, [step |-> "records", exercises |-> r.val[1]]),
              tx |-> Some(ChainTx("getAllRecords", recordStore, "readonly", <<>>))]
      [] c.step = "records" ->
             [call |-> Merge(c, [step |-> "plans", records |-> r.val[1]]),
              tx |-> Some(ChainTx("getAllPlans", planStore, "readonly", <<>>))]
      [] c.step = "plans" ->
             [call |-> Merge(c, [step |-> "end", plans |-> r.val[1]]), tx |-> Null]

\* initializeExerciseDatabase up to its first await (initializeDB opens the
\* database and closes it again)
initializeExerciseDatabase(p) ==
    /\ Issue(p, [op |-> "initializeExerciseDatabase", step |-> "existingExercises",
                 exercisesBefore |-> exercises],
             "getAllExercises", {exerciseStore}, "readonly", <<>>)
    /\ quiet' = NoCall
    /\ clean' = [q \in Callers |-> FALSE]
    /\ UNCHANGED <<after, idLog>>

\* the chain continues after an await: a rejection of an addPlan is caught by
\* populateSampleData, any other rejection ends the chain with it
initializeResume(p, now) ==
    /\ pc[p] = "done"
    /\ call[p].op = "initializeExerciseDatabase"
    /\ call[p].step # "end"
    /\ IF res[p].status = "rejected" /\ call[p].step # "addPlan"
       THEN /\ call' = [call EXCEPT ![p] = Merge(call[p], [step |-> "end"])]
            /\ UNCHANGED <<pc, res, txq, conn>>
       ELSE LET n == initializeStep(call[p], res[p], now)
            IN /\ call' = [call EXCEPT ![p] = n.call]
               /\ IF IsSome(n.tx)
                  THEN /\ Len(txq) < MaxQueue
                       /\ pc' = [pc EXCEPT ![p] = "waiting"]
                       /\ res' = [res EXCEPT ![p] = Pending]
                       /\ txq' = Append(txq, Tx(p, n.tx[1].kind, n.tx[1].scope, n.tx[1].mode,
                                                n.tx[1].arg, TRUE))
                       /\ conn' = [conn EXCEPT ![p] = <<"open">>]
                  ELSE /\ res' = [res EXCEPT ![p] =
                                    Resolved([exercises |-> n.call.exercises,
                                              records |-> n.call.records,
                                              plans |-> n.call.plans])]
                       /\ UNCHANGED <<pc, txq, conn>>
    /\ UNCHANGED <<stores, history, form>>

\* the caller is between two calls of the chain
InChain(p) == call[p].op = "initializeExerciseDatabase" /\ call[p].step # "end"

\* One task: it adds and edits exercises, clears the plans and runs the start-up
\* initialisation, one call after the other.  No seeding of plans is started
\* once the key generator of the plans has passed MaxKey.
NextInitialize ==
    \/ \E p \in Editor, e \in ExerciseInputs : addExercise(p, e)
    \/ \E p \in Editor : clearAllPlans(p)
    \/ \E p \in Editor :
           (planKeyGen <= MaxKey \/ plans # EmptyStore) /\ initializeExerciseDatabase(p)
    \/ \E p \in Editor : initializeResume(p, "T2")
    \/ \E p \in Editor : ~InChain(p) /\ Return(p)
    \/ \E i \in 1..MaxQueue : RunTransaction(i)

SpecInitialize == Init /\ [][NextInitialize]_vars

\* C24: an initializeExerciseDatabase that found exercises stored and no plan
\* leaves the exercises store as it was when it started, exercises that carry
\* the name of a sample included.
InitializeKeepsExercises ==
    \A p \in Callers :
        (/\ pc[p] = "done"
         /\ call[p].op = "initializeExerciseDatabase"
         /\ call[p].step = "end"
         /\ call[p].existingExercises > 0
         /\ call[p].existingPlans = 0)
        => exercises = call[p].exercisesBefore

\* ---------------------------------------------------------- plan form
\* PlanForm: the entries the user has selected, each with the id the form
\* gave it; shown is history, the names and counts of the list as the user's
\* steps leave it position by position.
MaxEntries == 2
FormCounts == {-1, 5}
NoSchedule == <<"0", "0", "0", "0", "0", "0", "0">>

\* useState initialiser of selectedExercises
planFormEntries(exs) ==
    [i \in 1..Len(exs) |->
        [id |-> i - 1, name |-> exs[i].name, type |-> exs[i].type, count |-> exs[i].count]]

\* the name and count of each entry, in order
Entries(exs) == [i \in 1..Len(exs) |-> [name |-> exs[i].name, count |-> exs[i].count]]

\* handleExerciseSelect
selectEntries(selectedExercises, exercise) ==
    Append(selectedExercises,
           [id |-> Len(selectedExercises), name |-> exercise.name,
            type |-> exercise.type, count |-> -1])

\* handleExerciseRemove: filter by id, then number the rest by position
removeEntriesKeepingIds(selectedExercises, id) ==
    SelectSeq(selectedExercises, LAMBDA e : e.id # id)
removeEntries(selectedExercises, id) ==
    LET rest == SelectSeq(selectedExercises, LAMBDA e : e.id # id)
    IN [i \in 1..Len(rest) |-> [rest[i] EXCEPT !.id = i - 1]]

\* handleCountChange
changeCount(selectedExercises, id, count) ==
    [i \in 1..Len(selectedExercises) |->
        IF selectedExercises[i].id = id
        THEN [selectedExercises[i] EXCEPT !.count = count] ELSE selectedExercises[i]]

\* findIndex: the first position whose entry has the id (positions from 1)
findIndex(exs, id) ==
    CHOOSE i \in 1..Len(exs) : exs[i].id = id /\ \A j \in 1..(i - 1) : exs[j].id # id

\* arrayMove(array, from, to): the element at from taken out and put in at to
arrayMove(array, from, to) ==
    [i \in 1..Len(array) |->
        IF i = to THEN array[from]
        ELSE IF from < to /\ from <= i /\ i < to THEN array[i + 1]
        ELSE IF to < from /\ to < i /\ i <= from THEN array[i - 1]
        ELSE array[i]]

\* handleDragEnd with active and over given by their ids
dragEntries(exs, activeId, overId) ==
    IF activeId # overId
    THEN arrayMove(exs, findIndex(exs, activeId), findIndex(exs, overId))
    ELSE exs

\* the user acts on a form between calls: none is in flight
Quiescent == txq = <<>> /\ \A p \in Callers : pc[p] = "idle"

\* the form opens for a new plan, or for a stored one
PlanFormOpen(name) ==
    /\ Quiescent
    /\ form = NoForm
    /\ form' = [kind |-> "plan", plan |-> Null, name |-> name, schedule |-> NoSchedule,
                selectedExercises |-> <<>>, shown |-> <<>>]
    /\ UNCHANGED <<stores, txq, pc, call, res, history, conn>>

PlanFormOpenEdit(k) ==
    /\ Quiescent
    /\ form = NoForm
    /\ k \in DOMAIN plans
    /\ form' = [kind |-> "plan", plan |-> Some(plans[k]), name |-> plans[k].name,
                schedule |-> plans[k].schedule,
                selectedExercises |-> planFormEntries(plans[k].exercises),
                shown |-> Entries(plans[k].exercises)]
    /\ UNCHANGED <<stores, txq, pc, call, res, history, conn>>

\* the user picks an exercise of the list
handleExerciseSelect(exercise) ==
    /\ Quiescent
    /\ form.kind = "plan"
    /\ Len(form.selectedExercises) < MaxEntries
    /\ form' = [form EXCEPT
                   !.selectedExercises = selectEntries(form.selectedExercises, exercise),
                   !.shown = Append(form.shown, [name |-> exercise.name, count |-> -1])]
    /\ UNCHANGED <<stores, txq, pc, call, res, history, conn>>

\* the user presses the remove button of the entry at position i
handleExerciseRemove(i) ==
    /\ Quiescent
    /\ form.kind = "plan"
    /\ i \in 1..Len(form.selectedExercises)
    /\ form' = [form EXCEPT
                   !.selectedExercises = removeEntries(form.selectedExercises,
                                                       form.selectedExercises[i].id),
                   !.shown = [j \in 1..(Len(form.shown) - 1) |->
                                 IF j < i THEN form.shown[j] ELSE form.shown[j + 1]]]
    /\ UNCHANGED <<stores, txq, pc, call, res, history, conn>>

\* the user types a count into the entry at position i
handleCountChange(i, count) ==
    /\ Quiescent
    /\ form.kind = "plan"
    /\ i \in 1..Len(form.selectedExercises)
    /\ form' = [form EXCEPT
                   !.selectedExercises = changeCount(form.selectedExercises,
                                                     form.selectedExercises[i].id, count),
                   !.shown = [form.shown EXCEPT ![i].count = count]]
    /\ UNCHANGED <<stores, txq, pc, call, res, history, conn>>

\* the user drags the entry at position i and drops it on the one at position j
handleDragEnd(i, j) ==
    /\ Quiescent
    /\ form.kind = "plan"
    /\ i \in 1..Len(form.selectedExercises)
    /\ j \in 1..Len(form.selectedExercises)
    /\ form' = [form EXCEPT
                   !.selectedExercises = dragEntries(form.selectedExercises,
                                                     form.selectedExercises[i].id,
                                                     form.selectedExercises[j].id),
                   !.shown = [n \in 1..Len(form.shown) |->
                                 IF n = j THEN form.shown[i]
                                 ELSE IF i < j /\ i <= n /\ n < j THEN form.shown[n + 1]
                                 ELSE IF j < i /\ j < n /\ n <= i THEN form.shown[n - 1]
                                 ELSE form.shown[n]]]
    /\ UNCHANGED <<stores, txq, pc, call, res, history, conn>>

\* PlanForm.handleSubmit: nothing is saved without an entry; a loaded plan
\* is updated, a new one added
planFormSubmit(p, now) ==
    /\ form.kind = "plan"
    /\ Len(form.selectedExercises) > 0
    /\ IF IsSome(form.plan)
       THEN updatePlan(p, form.plan[1].id,
                       Merge(form.plan[1],
                             [name |-> form.name, exercises |-> form.selectedExercises,
                              schedule |-> form.schedule, updatedAt |-> now]))
       ELSE addPlan(p, [name |-> form.name, exercises |-> form.selectedExercises,
                        schedule |-> form.schedule, createdAt |-> now], now)

\* PlanForm.handleSubmit after its await: onComplete() closes the form when
\* the call resolved, the form stays with an error when it rejected
planFormSettled(p) ==
    /\ form.kind = "plan"
    /\ pc[p] = "done"
    /\ call[p].op \in {"addPlan", "updatePlan"}
    /\ pc' = [pc EXCEPT ![p] = "idle"]
    /\ call' = [call EXCEPT ![p] = NoCall]
    /\ res' = [res EXCEPT ![p] = Pending]
    /\ clean' = [clean EXCEPT ![p] = FALSE]
    /\ after' = [after EXCEPT ![p] = NoCall]
    /\ conn' = [conn EXCEPT ![p] = <<>>]
    /\ form' = IF res[p].status = "resolved" THEN NoForm ELSE form
    /\ UNCHANGED <<stores, txq, quiet, idLog>>

\* onCancel
PlanFormClose ==
    /\ Quiescent
    /\ form.kind = "plan"
    /\ form' = NoForm
    /\ UNCHANGED <<stores, txq, pc, call, res, history, conn>>

NextPlanForm ==
    \/ PlanFormOpen("Basic Fitness")
    \/ \E k \in 1..MaxKey : PlanFormOpenEdit(k)
    \/ \E e \in FirstVersions : handleExerciseSelect(e)
    \/ \E i \in 1..MaxEntries : handleExerciseRemove(i)
    \/ \E i \in 1..MaxEntries, c \in FormCounts : handleCountChange(i, c)
    \/ \E i, j \in 1..MaxEntries : handleDragEnd(i, j)
    \/ \E p \in Editor : planFormSubmit(p, "T2")
    \/ \E p \in Editor : planFormSettled(p)
    \/ PlanFormClose
    \/ \E p \in Editor : getAllPlans(p)
    \/ \E p \in Callers : call[p].op = "getAllPlans" /\ Return(p)
    \/ \E i \in 1..MaxQueue : RunTransaction(i)

SpecPlanForm == Init /\ [][NextPlanForm]_vars

\* C19: the entries of the plan form are, in name, count and order, the list
\* the user's select, remove, count and drag steps leave; submit hands over
\* exactly these; and a getAllPlans issued after the submit has resolved
\* returns the plan with the same names and counts in the same order.
PlanOrderPreserved ==
    [][/\ form'.kind = "plan" => Entries(form'.selectedExercises) = form'.shown
       /\ \A p \in Callers :
             /\ (pc[p] = "idle" /\ pc'[p] = "waiting" /\ call'[p].op \in {"addPlan", "updatePlan"})
                => Entries(call'[p].plan.exercises) = form.shown
             /\ (/\ Settles(p, "getAllPlans")
                 /\ after[p].op \in {"addPlan", "updatePlan"}
                 /\ after[p].status = "resolved")
                => /\ res'[p].status = "resolved"
                   /\ \E i \in 1..Len(res'[p].val[1]) :
                         /\ res'[p].val[1][i].name = after[p].plan.name
                         /\ Entries(res'[p].val[1][i].exercises)
                               = Entries(after[p].plan.exercises)]_vars

\* getAllPlans issued after a resolved updatePlan has returned a plan of two
\* entries whose ids are no longer in the order of their positions (they
\* were dragged) and whose first count was changed
PlanOrderPreservedWitness ==
    \E p \in Callers :
        /\ pc[p] = "done"
        /\ call[p].op = "getAllPlans"
        /\ after[p].op = "updatePlan"
        /\ after[p].status = "resolved"
        /\ res[p].status = "resolved"
        /\ \E i \in 1..Len(res[p].val[1]) :
              LET exs == res[p].val[1][i].exercises
              IN /\ Len(exs) = 2
                 /\ exs[1].id = 1 /\ exs[2].id = 0
                 /\ exs[1].name # exs[2].name
                 /\ exs[1].count = 5 /\ exs[2].count = -1

\* ----------------------------------------------------- exercise forms
\* AddExerciseButton and EditExercise.  A defaultCount is kept as the
\* sequence of its pieces: the runs of digits as numbers, every other
\* character by itself ("3s10r" is 3, s, 10, r).
Num(n) == [t |-> "num", n |-> n, c |-> ""]
Chr(c) == [t |-> "chr", n |-> 0, c |-> c]

\* some of the samples of populateSampleExercises
SampleExercises ==
    {[name |-> "Squats", type |-> "strength", defaultCount |-> <<Num(3), Chr("s"), Num(15), Chr("r")>>,
      instruction |-> "Keep your knees aligned with your toes"],
     [name |-> "Plank", type |-> "core", defaultCount |-> <<Num(30)>>,
      instruction |-> "Hold position with straight back and tight core"],
     [name |-> "Jump Rope", type |-> "cardio", defaultCount |-> <<Num(2), Chr("m")>>,
      instruction |-> "Maintain small jumps with wrists doing most of the work"],
     [name |-> "Leg Raises", type |-> "core",
      defaultCount |-> <<Num(3), Chr("s"), Num(15), Chr("r")>>,
      instruction |-> "Keep lower back pressed to floor while raising legs"]}

\* useState initialiser of AddExerciseButton
NewFormData == [name |-> "", type |-> "strength", sets |-> 3, reps |-> 10, instruction |-> ""]

\* exercise.defaultCount.match(/(\d+)s(\d+)r/): the first place it matches
SetsRepsMatch(defaultCount) ==
    LET at == {i \in 1..(Len(defaultCount) - 3) :
                  /\ defaultCount[i].t = "num" /\ defaultCount[i + 1] = Chr("s")
                  /\ defaultCount[i + 2].t = "num" /\ defaultCount[i + 3] = Chr("r")}
    IN IF at = {} THEN Null
       ELSE LET i == CHOOSE x \in at : \A y \in at : x <= y
            IN Some([sets |-> defaultCount[i].n, reps |-> defaultCount[i + 2].n])

\* parseInt(exercise.defaultCount): the leading digits, or NaN
LeadingInt(defaultCount) ==
    IF Len(defaultCount) > 0 /\ defaultCount[1].t = "num" THEN Some(defaultCount[1].n) ELSE Null

\* useState initialiser of EditExercise
editFormData(exercise) ==
    LET baseData == [name |-> exercise.name, type |-> exercise.type,
                     instruction |-> exercise.instruction]
    IN IF exercise.type = "strength"
       THEN LET match == SetsRepsMatch(exercise.defaultCount)
            IN IF IsSome(match) THEN Merge(baseData, match[1]) ELSE baseData
       ELSE LET seconds == LeadingInt(exercise.defaultCount)
            IN IF IsSome(seconds)
               THEN Merge(baseData, [minutes |-> seconds[1] \div 60, seconds |-> seconds[1] % 60])
               ELSE baseData

\* handleInputChange of the type select
changeType(formData, value) ==
    LET kept == [f \in (DOMAIN formData) \ {"sets", "reps", "minutes", "seconds"} |-> formData[f]]
    IN Merge(kept,
             IF value = "strength" THEN [type |-> value, sets |-> 3, reps |-> 10]
             ELSE IF value = "cardio" THEN [type |-> value, minutes |-> 1, seconds |-> 0]
             ELSE [type |-> value, seconds |-> 30])

\* handleInputChange of a number field: parseInt(value) || 0
changeNumber(formData, field, value) == Merge(formData, [f \in {field} |-> ParseInt(value)])

\* handleInputChange of a text field
changeText(formData, field, value) == Merge(formData, [f \in {field} |-> value])

\* formData.x of a number field that may be missing
Field(formData, f) == IF f \in DOMAIN formData THEN formData[f] ELSE 0
Piece(formData, f) == IF f \in DOMAIN formData THEN Num(formData[f]) ELSE Chr("undefined")

\* formatDefaultCount of AddExerciseButton and of EditExercise
addFormatDefaultCount(formData) ==
    CASE formData.type = "strength" ->
             <<Piece(formData, "sets"), Chr("s"), Piece(formData, "reps"), Chr("r")>>
      [] formData.type = "cardio" ->
             <<Num(Field(formData, "minutes") * 60 + Field(formData, "seconds"))>>
      [] formData.type = "core" -> <<Piece(formData, "seconds"), Chr("s")>>
      [] OTHER -> <<>>

editFormatDefaultCount(formData) ==
    CASE formData.type = "strength" ->
             <<Piece(formData, "sets"), Chr("s"), Piece(formData, "reps"), Chr("r")>>
      [] formData.type = "cardio" ->
             <<Num(Field(formData, "minutes") * 60 + Field(formData, "seconds"))>>
      [] formData.type = "core" -> <<Piece(formData, "seconds")>>
      [] OTHER -> <<>>

\* the checks of handleSubmit on the count fields
CountsValid(formData) ==
    CASE formData.type = "strength" ->
             Field(formData, "sets") >= 1 /\ Field(formData, "reps") >= 1
      [] formData.type = "cardio" ->
             ~(Field(formData, "minutes") = 0 /\ Field(formData, "seconds") = 0)
      [] formData.type = "core" -> Field(formData, "seconds") >= 1
      [] OTHER -> TRUE

\* the number fields the form shows for a type
NumberFields(type) ==
    CASE type = "strength" -> {"sets", "reps"}
      [] type = "cardio" -> {"minutes", "seconds"}
      [] type = "core" -> {"seconds"}
      [] OTHER -> {}

\* the modal of AddExerciseButton opens; EditExercise opens on a stored exercise
AddExerciseFormOpen ==
    /\ Quiescent
    /\ form = NoForm
    /\ form' = [kind |-> "addExercise", formData |-> NewFormData]
    /\ UNCHANGED <<stores, txq, pc, call, res, history, conn>>

EditExerciseFormOpen(n) ==
    /\ Quiescent
    /\ form = NoForm
    /\ n \in DOMAIN exercises
    /\ form' = [kind |-> "editExercise", exercise |-> exercises[n],
                formData |-> editFormData(exercises[n])]
    /\ UNCHANGED <<stores, txq, pc, call, res, history, conn>>

\* handleInputChange of either form: the type select, a number field, a text
handleInputChange(name, value) ==
    /\ Quiescent
    /\ form.kind \in {"addExercise", "editExercise"}
    /\ name \in {"type", "name", "instruction"} \cup NumberFields(form.formData.type)
    /\ form' = [form EXCEPT !.formData =
                   IF name = "type" THEN changeType(form.formData, value)
                   ELSE IF name \in {"sets", "reps", "minutes", "seconds"}
                   THEN changeNumber(form.formData, name, value)
                   ELSE changeText(form.formData, name, value)]
    /\ UNCHANGED <<stores, txq, pc, call, res, history, conn>>

\* handleSubmit of either form, up to its await
exerciseFormSubmit(p) ==
    /\ form.kind \in {"addExercise", "editExercise"}
    /\ form.formData.name # ""
    /\ form.kind = "editExercise" => form.formData.instruction # ""
    /\ CountsValid(form.formData)
    /\ IF form.kind = "addExercise"
       THEN addExercise(p, [name |-> form.formData.name, type |-> form.formData.type,
                            defaultCount |-> addFormatDefaultCount(form.formData),
                            instruction |-> form.formData.instruction])
       ELSE updateExercise(p, form.exercise.name,
                           [name |-> form.formData.name, type |-> form.formData.type,
                            defaultCount |-> editFormatDefaultCount(form.formData),
                            instruction |-> form.formData.instruction])

\* handleSubmit after its await: the form closes when the call resolved
exerciseFormSettled(p) ==
    /\ form.kind \in {"addExercise", "editExercise"}
    /\ pc[p] = "done"
    /\ call[p].op \in {"addExercise", "updateExercise"}
    /\ pc' = [pc EXCEPT ![p] = "idle"]
    /\ call' = [call EXCEPT ![p] = NoCall]
    /\ res' = [res EXCEPT ![p] = Pending]
    /\ clean' = [clean EXCEPT ![p] = FALSE]
    /\ after' = [after EXCEPT ![p] = NoCall]
    /\ conn' = [conn EXCEPT ![p] = <<>>]
    /\ form' = IF res[p].status = "resolved" THEN NoForm ELSE form
    /\ UNCHANGED <<stores, txq, quiet, idLog>>

\* closeModal / onClose
ExerciseFormClose ==
    /\ Quiescent
    /\ form.kind \in {"addExercise", "editExercise"}
    /\ form' = NoForm
    /\ UNCHANGED <<stores, txq, pc, call, res, history, conn>>

\* what the user types: nothing or 45 into a number field
TypedNumbers == {<<>>, <<4, 5>>}

NextExerciseForms ==
    \/ AddExerciseFormOpen
    \/ EditExerciseFormOpen("Plank")
    \/ \E v \in {"strength", "cardio", "core"} : handleInputChange("type", v)
    \/ \E f \in {"sets", "reps", "minutes", "seconds"}, v \in TypedNumbers : handleInputChange(f, v)
    \/ handleInputChange("name", "Plank")
    \/ \E p \in Editor : exerciseFormSubmit(p)
    \/ \E p \in Editor : exerciseFormSettled(p)
    \/ ExerciseFormClose
    \/ \E p \in Editor : populateSampleExercises(p, SampleExercises)
    \/ \E p \in Callers : call[p].op = "populateSampleExercises" /\ Return(p)
    \/ \E i \in 1..MaxQueue : RunTransaction(i)

SpecExerciseForms == Init /\ [][NextExerciseForms]_vars

\* the forms <N>s<M>r and plain seconds
IsSetsReps(defaultCount) ==
    /\ Len(defaultCount) = 4
    /\ defaultCount[1].t = "num" /\ defaultCount[2] = Chr("s")
    /\ defaultCount[3].t = "num" /\ defaultCount[4] = Chr("r")
IsSeconds(defaultCount) == Len(defaultCount) = 1 /\ defaultCount[1].t = "num"

\* C20: every stored exercise has a defaultCount of the form <N>s<M>r when
\* its type is strength, and a plain number of seconds otherwise.
DefaultCountWellFormed ==
    \A n \in DOMAIN exercises :
        IF exercises[n].type = "strength" THEN IsSetsReps(exercises[n].defaultCount)
        ELSE IsSeconds(exercises[n].defaultCount)

\* ---- the edit form alone: the samples are seeded, the user opens the edit
\* form on one of them, may type 45 or 90 into the seconds field (while the
\* form shows no minutes above 0) and saves
EditedSamples ==
    {e \in SampleExercises : e.name \in {"Squats", "Plank"}}
    \cup {[name |-> "Jumping Jacks", type |-> "cardio", defaultCount |-> <<Num(45)>>,
           instruction |-> "Jump with hands above head and feet apart"]}

NextEditForms ==
    \/ \E p \in Editor : populateSampleExercises(p, EditedSamples)
    \/ \E p \in Callers : call[p].op = "populateSampleExercises" /\ Return(p)
    \/ \E n \in {e.name : e \in EditedSamples} : EditExerciseFormOpen(n)
    \/ /\ form.kind = "editExercise"
       /\ Field(form.formData, "minutes") = 0
       /\ \E v \in {<<4, 5>>, <<9, 0>>} : handleInputChange("seconds", v)
    \/ \E p \in Editor : exerciseFormSubmit(p)
    \/ \E p \in Editor : exerciseFormSettled(p)
    \/ ExerciseFormClose
    \/ \E i \in 1..MaxQueue : RunTransaction(i)

SpecEditForms == Init /\ [][NextEditForms]_vars

\* the defaultCount is valid for the type of the exercise
ValidDefaultCount(exercise) ==
    IF exercise.type = "strength" THEN IsSetsReps(exercise.defaultCount)
    ELSE IsSeconds(exercise.defaultCount)

\* C29: when the edit form was opened on a stored exercise with a valid
\* defaultCount and is saved with every field as the form showed it on opening,
\* the exercise is stored with the defaultCount it had.
EditSaveKeepsDefaultCount ==
    [][\A p \in Callers :
          (/\ Settles(p, "updateExercise")
           /\ res'[p].status = "resolved"
           /\ form.kind = "editExercise"
           /\ form.formData = editFormData(form.exercise)
           /\ ValidDefaultCount(form.exercise)
           /\ form.exercise.name \in DOMAIN exercises
           /\ exercises[form.exercise.name] = form.exercise)
          => exercises'[form.exercise.name].defaultCount = form.exercise.defaultCount]_vars

\* ------------------------------------------------------ record list
\* RecordList: the list of the records of the selected day, on the dashboard
\* (dash) or on the records tab.  form holds its React state while it is on
\* screen.
DayRecords == 6      \* records logged while the list is studied
DashLimit == 5

\* new Date(`${date} ${time}`).getTime() for dates and times of digits
RecordTime(r) == DateTime(r.date) * 10000 + ParseInt(r.time)

\* records.sort((a, b) => time of a - time of b): ascending, stable
SortByTime(rs) ==
    LET rank(i) == Cardinality({j \in 1..Len(rs) :
                       \/ RecordTime(rs[j]) < RecordTime(rs[i])
                       \/ RecordTime(rs[j]) = RecordTime(rs[i]) /\ j < i}) + 1
    IN [n \in 1..Len(rs) |-> rs[CHOOSE i \in 1..Len(rs) : rank(i) = n]]

\* dash ? records.slice(0, 5) : records
displayRecords(list) ==
    IF list.dash
    THEN SubSeq(list.records, 1, IF Len(list.records) < DashLimit THEN Len(list.records)
                                 ELSE DashLimit)
    ELSE list.records

\* the list is rendered: selectedDate is today, nothing loaded yet
RecordListMount(dash, today) ==
    /\ form = NoForm
    /\ form' = [kind |-> "recordList", dash |-> dash, selectedDate |-> today,
                records |-> <<>>, loading |-> TRUE]
    /\ UNCHANGED <<stores, txq, pc, call, res, history, conn>>

\* loadRecords up to its await (the effect on selectedDate, or a reload after
\* a record was saved or deleted)
loadRecords(p) ==
    /\ form.kind = "recordList"
    /\ getRecordsByDateRange(p, form.selectedDate, form.selectedDate)

\* loadRecords after its await: the sorted records are set; a rejection is
\* logged and the list left as it was
loadRecordsSettled(p) ==
    /\ form.kind = "recordList"
    /\ pc[p] = "done"
    /\ call[p].op = "getRecordsByDateRange"
    /\ pc' = [pc EXCEPT ![p] = "idle"]
    /\ call' = [call EXCEPT ![p] = NoCall]
    /\ res' = [res EXCEPT ![p] = Pending]
    /\ clean' = [clean EXCEPT ![p] = FALSE]
    /\ after' = [after EXCEPT ![p] = NoCall]
    /\ conn' = [conn EXCEPT ![p] = <<>>]
    /\ form' = IF res[p].status = "resolved"
               THEN [form EXCEPT !.records = SortByTime(res[p].val[1]), !.loading = FALSE]
               ELSE [form EXCEPT !.loading = FALSE]
    /\ UNCHANGED <<stores, txq, quiet, idLog>>

\* the user leaves the tab
RecordListUnmount ==
    /\ form.kind = "recordList"
    /\ \A p \in Editor : pc[p] = "idle"
    /\ form' = NoForm
    /\ UNCHANGED <<stores, txq, pc, call, res, history, conn>>

\* what is logged: Squats today, at 06:00 and at 09:00
EarlyClock == <<0, 6, 0, 0>>
LateClock == <<0, 9, 0, 0>>
ListRecordInputs ==
    {Merge(RecordInput("Squats", Today, NumberCount(10)), [time |-> t]) :
        t \in {EarlyClock, LateClock}}

NextRecordList ==
    \/ \E p \in Loggers, r \in ListRecordInputs : addRecordWithin(p, r, Today, Clock, DayRecords)
    \/ \E p \in Loggers : Return(p)
    \/ \E dash \in BOOLEAN : RecordListMount(dash, Today)
    \/ \E p \in Editor : loadRecords(p)
    \/ \E p \in Editor : loadRecordsSettled(p)
    \/ RecordListUnmount
    \/ \E i \in 1..MaxQueue : RunTransaction(i)

SpecRecordList == Init /\ [][NextRecordList]_vars

\* C26: in dashboard mode the list shows the (at most five) most recent
\* records of the selected day: every record it shows is of that day, it shows
\* five of them or all the loaded ones, and no loaded record it leaves out has
\* a later time than one it shows.
DashShowsMostRecent ==
    (form.kind = "recordList" /\ form.dash /\ ~form.loading)
    => LET shown == displayRecords(form)
           ids == {shown[i].id : i \in 1..Len(shown)}
       IN /\ Len(shown) = IF Len(form.records) < DashLimit THEN Len(form.records)
                          ELSE DashLimit
          /\ \A i \in 1..Len(shown) : shown[i].date = form.selectedDate
          /\ \A i \in 1..Len(shown), j \in 1..Len(form.records) :
                form.records[j].id \notin ids
                => RecordTime(form.records[j]) <= RecordTime(shown[i])

\* ------------------------------------------------------------ updates
\* The editor changes and deletes plans and changes records; the loggers add
\* plans and log records.
ValidPlanInputs == {pl \in PlanInputs : MatchesSchedule(pl.schedule)}

\* C18: once a call has settled and no transaction of its caller is waiting,
\* none of the connections the call opened is left open with no close asked
\* for, whether the call resolved or rejected.
ConnectionsReleased ==
    \A p \in Callers :
        (pc[p] = "done" /\ \A i \in 1..Len(txq) : txq[i].owner # p)
        => \A c \in 1..Len(conn[p]) : conn[p][c] # "open"

\* plan timestamps
\* The loggers add plans at time T2; the editor updates them at time T3 with
\* a bare rename, with what the plan form passes (the loaded plan's fields
\* and updatedAt) and with a patch that carries a createdAt of its own.
UpdateTime == "T3"
TimedPlanPatches ==
    {[name |-> "Cardio Focus"],
     [name |-> "Cardio Focus", createdAt |-> "T2", updatedAt |-> UpdateTime],
     [name |-> "Basic Fitness", createdAt |-> "T0"]}

NextPlanTimes ==
    \/ \E p \in Loggers, pl \in ValidPlanInputs : addPlan(p, pl, "T2")
    \/ \E p \in Editor, id \in 1..MaxKey, pt \in TimedPlanPatches : updatePlan(p, id, pt)
    \/ \E p \in Editor : getAllPlans(p)
    \/ \E p \in Callers : Return(p)
    \/ \E i \in 1..MaxQueue : RunTransaction(i)

SpecPlanTimes == Init /\ [][NextPlanTimes]_vars

\* C15: an updatePlan, whatever its patch carries, leaves the createdAt of
\* every stored plan as addPlan wrote it.
CreatedAtNeverChanges ==
    [][\A p \in Callers :
          Settles(p, "updatePlan")
          => \A k \in DOMAIN plans \cap DOMAIN plans' :
                 plans'[k].createdAt = plans[k].createdAt]_vars

\* C16: an updatePlan that resolves leaves the plan with updatedAt set to the
\* time of the update, whether or not the patch carries an updatedAt.
UpdatePlanSetsUpdatedAt ==
    [][\A p \in Callers :
          (Settles(p, "updatePlan") /\ res'[p].status = "resolved")
          => /\ "updatedAt" \in DOMAIN plans'[call[p].id]
             /\ plans'[call[p].id].updatedAt = UpdateTime]_vars

NextUpdates ==
    \/ \E p \in Loggers, pl \in ValidPlanInputs : addPlan(p, pl, "T2")
    \/ \E p \in Editor, id \in 1..MaxKey, pt \in PlanPatches : updatePlan(p, id, pt)
    \/ \E p \in Editor, id \in 1..MaxKey : deletePlan(p, id)
    \/ \E p \in Loggers : addRecord(p, RecordInput("Squats", Today, NumberCount(10)), Today, Clock)
    \/ \E p \in Editor, id \in 0..MaxKey, pt \in RecordPatches : updateRecord(p, id, pt)
    \/ \E p \in Callers : Return(p)
    \/ \E i \in 1..MaxQueue : RunTransaction(i)

SpecUpdates == Init /\ [][NextUpdates]_vars

\* caller p's call of method op ends in this step, with or without a transaction
Ends(p, op) == pc[p] # "done" /\ pc'[p] = "done" /\ call'[p].op = op

\* C10 as claimed: updatePlan and updateRecord called with an id that has no
\* stored entry reject with the not-found error and leave their store as it was.
UpdateMissingNotFound ==
    [][\A p \in Callers :
          /\ (Ends(p, "updatePlan") /\ call'[p].id \notin DOMAIN plans)
             => res'[p] = Rejected("Plan not found") /\ plans' = plans
          /\ (Ends(p, "updateRecord") /\ call'[p].id \notin DOMAIN records)
             => res'[p] = Rejected("Record not found") /\ records' = records]_vars

\* C10 as amended: the same, but updateRecord with id 0 rejects with 'Record
\* ID is required'.
UpdateMissingRejected ==
    [][\A p \in Callers :
          /\ (Ends(p, "updatePlan") /\ call'[p].id \notin DOMAIN plans)
             => res'[p] = Rejected("Plan not found") /\ plans' = plans
          /\ (Ends(p, "updateRecord") /\ call'[p].id \notin DOMAIN records)
             => /\ res'[p] = Rejected(IF call'[p].id = 0 THEN "Record ID is required"
                                                          ELSE "Record not found")
                /\ records' = records]_vars

\* an updatePlan has been rejected as not found while another plan is stored
UpdateMissingRejectedWitness ==
    \E p \in Callers :
        /\ pc[p] = "done"
        /\ call[p].op = "updatePlan"
        /\ res[p] = Rejected("Plan not found")
        /\ call[p].id \notin DOMAIN plans
        /\ plans # EmptyStore

====
